---- MODULE Spec2Model ----
(***************************************************************************)
(* NetChunk: chunked, replicated file storage over FTP servers.            *)
(*                                                                         *)
(* The module models the orchestrators (upload, download, verify), the     *)
(* repair engine and the chunker as they are written in the sources, on    *)
(* top of a transport whose chunk and manifest primitives are stubs in the *)
(* sources and are therefore modelled by their contract: a per-server      *)
(* store of chunk replicas, and calls that may fail.                       *)
(*                                                                         *)
(* Every transport call can fail independently of every other one.  The    *)
(* outcome of the calls of one phase of a handler is an input of the       *)
(* action that models the phase: the set of servers on which the call      *)
(* succeeds.                                                               *)
(***************************************************************************)
EXTENDS Integers, Sequences, FiniteSets, TLC

(***************************************************************************)
(* Bounds of the model.                                                    *)
(***************************************************************************)
\* number of configured servers (config->server_count)
NumServers == 3
\* largest input file, in bytes
MaxFileSize == 2
\* largest configured chunk size, in bytes
MaxChunkSize == 2
\* largest configured max_retry_attempts
MaxRetryAttempts == 2
\* largest replication factor of the files stored before a download
MaxStoredReplicas == 2
\* most short writes the local disk gives one download
MaxShortWrites == 1

(***************************************************************************)
(* Program constants.                                                      *)
(***************************************************************************)
NETCHUNK_MIN_REPLICATION_FACTOR == 1
NETCHUNK_MAX_REPLICATION_FACTOR == 10
NETCHUNK_MAX_CHUNK_LOCATIONS == NETCHUNK_MAX_REPLICATION_FACTOR

SUCCESS == "NETCHUNK_SUCCESS"
ERROR_INVALID_ARGUMENT == "NETCHUNK_ERROR_INVALID_ARGUMENT"
ERROR_FILE_NOT_FOUND == "NETCHUNK_ERROR_FILE_NOT_FOUND"
ERROR_FILE_ACCESS == "NETCHUNK_ERROR_FILE_ACCESS"
ERROR_FTP == "NETCHUNK_ERROR_FTP"
ERROR_CHUNK_INTEGRITY == "NETCHUNK_ERROR_CHUNK_INTEGRITY"
ERROR_UPLOAD_FAILED == "NETCHUNK_ERROR_UPLOAD_FAILED"
ERROR_DOWNLOAD_FAILED == "NETCHUNK_ERROR_DOWNLOAD_FAILED"
ERROR_EOF == "NETCHUNK_ERROR_EOF"

REPAIR_VERIFY_ONLY == "NETCHUNK_REPAIR_VERIFY_ONLY"
REPAIR_AUTO == "NETCHUNK_REPAIR_AUTO"
REPAIR_FORCE == "NETCHUNK_REPAIR_FORCE"
RepairModes == {REPAIR_VERIFY_ONLY, REPAIR_AUTO, REPAIR_FORCE}

CHUNK_HEALTHY == "NETCHUNK_CHUNK_HEALTHY"
CHUNK_DEGRADED == "NETCHUNK_CHUNK_DEGRADED"
CHUNK_CRITICAL == "NETCHUNK_CHUNK_CRITICAL"
CHUNK_LOST == "NETCHUNK_CHUNK_LOST"

(***************************************************************************)
(* Data.                                                                   *)
(***************************************************************************)
Servers == 1..NumServers
\* find_server_by_id and select_server_for_replica return NULL
NULL == 0
Byte == {0, 1}
\* no replica at a path (a chunk payload is never empty)
NoFile == <<>>
\* a chunk whose data pointer is NULL
NoData == <<>>
NoManifest == [chunk_count |-> 0]
\* chunks are named by their position in the file, 1..chunk_count
ChunkIds == 1..MaxFileSize

Min(a, b) == IF a < b THEN a ELSE b

Range(seq) == {seq[i] : i \in 1..Len(seq)}

\* the digest of a byte string: an injective fold over the bytes
\* (SHA-256 taken as collision free)
RECURSIVE netchunk_sha256_hash(_)
netchunk_sha256_hash(data) ==
    IF data = <<>> THEN 1
    ELSE 2 * netchunk_sha256_hash(SubSeq(data, 1, Len(data) - 1)) + data[Len(data)]

netchunk_hash_compare(hash1, hash2) == hash1 = hash2

\* a replica with one byte flipped
Corrupt(data) == [data EXCEPT ![1] = 1 - data[1]]

\* the bytes of the input file of size T used by the initial states
FileOfSize(T) == [i \in 1..T |-> i % 2]

(***************************************************************************)
(* Chunker.                                                                *)
(***************************************************************************)
netchunk_calculate_chunk_count(file_size, target_chunk_size) ==
    IF file_size = 0 \/ target_chunk_size = 0 THEN 0
    ELSE (file_size + target_chunk_size - 1) \div target_chunk_size

\* a read that returns one byte at most
read_file_chunk_Short(file, offset, buffer_size) == SubSeq(file, offset + 1, Min(Len(file), offset + 1))

\* fread of up to buffer_size bytes at offset
read_file_chunk(file, offset, buffer_size) ==
    SubSeq(file, offset + 1, Min(Len(file), offset + buffer_size))

\* an integrity check that accepts any downloaded bytes
netchunk_chunk_verify_integrity_AnyBytes(hash, data) ==
    IF data = NoData THEN ERROR_INVALID_ARGUMENT ELSE SUCCESS

netchunk_chunk_verify_integrity(hash, data) ==
    IF data = NoData THEN ERROR_INVALID_ARGUMENT
    ELSE IF ~netchunk_hash_compare(hash, netchunk_sha256_hash(data))
         THEN ERROR_CHUNK_INTEGRITY
         ELSE SUCCESS

\* the chunk record of sequence number k that chunking file with chunk size
\* S yields (netchunk_chunk_init, netchunk_chunk_set_data)
NewChunk(file, S, k) ==
    LET data == read_file_chunk(file, k * S, S)
    IN [id |-> k + 1,
        sequence_number |-> k,
        size |-> Len(data),
        hash |-> netchunk_sha256_hash(data),
        locations |-> <<>>]

(***************************************************************************)
(* State.                                                                  *)
(***************************************************************************)
VARIABLES
    config,   \* replication_factor, max_retry_attempts, chunk_size
    store,    \* store[s][c]: the replica of chunk c on server s, or NoFile
    remote,   \* the manifest stored on the servers, or NoManifest
    calls,    \* the uploads and deletes sent to servers by the operation
    hist,     \* store and remote as they were when the operation began
    rep,      \* netchunk_repair_file: position and locals
    vfy,      \* netchunk_verify: position and locals
    upl,      \* netchunk_upload: position and locals
    dl,       \* netchunk_download: position and locals
    ctx,      \* netchunk_init: the configuration file and the context
    disk,     \* netchunk_manifest_save_to_file: the local files and the save
    pool,     \* the connection pool: slots and the threads using them
    xfer,     \* perform_curl_operation: position and locals
    del,      \* netchunk_delete: position and locals
    bal,      \* netchunk_repair_rebalance_chunks: position, locals, the caller's manifest
    probe,    \* the result of the last connection test of each server
    cn,       \* the pool's mutexes, each connection's session, the threads using them
    mgr       \* the manifest manager: the document being loaded, the files it keeps

\* the variables of the operations added last; every other operation leaves
\* them alone
more == <<del, bal, probe, cn, mgr>>

\* the variables of the start-up, the local manifest file, the pool and the
\* transfer loop
local == <<ctx, disk, pool, xfer, more>>

vars == <<config, store, remote, calls, hist, rep, vfy, upl, dl, local>>

Idle == [pc |-> "idle"]

MoreIdle == del = Idle /\ bal = Idle /\ probe = Idle /\ cn = Idle /\ mgr = Idle

\* start-up, manifest save, pool and transfer loop are not in use
LocalIdle == ctx = Idle /\ disk = Idle /\ pool = Idle /\ xfer = Idle /\ MoreIdle

(***************************************************************************)
(* Transport: chunk and manifest primitives, by contract.  ok is the       *)
(* outcome the network gives the call.                                     *)
(***************************************************************************)
netchunk_ftp_download_chunk(st, s, c, ok) ==
    IF ok /\ st[s][c] # NoFile
    THEN [error |-> SUCCESS, data |-> st[s][c]]
    ELSE [error |-> ERROR_FTP, data |-> NoData]

netchunk_ftp_upload_chunk(st, s, c, data, ok) ==
    IF ok
    THEN [error |-> SUCCESS, store |-> [st EXCEPT ![s][c] = data]]
    ELSE [error |-> ERROR_FTP, store |-> st]

netchunk_ftp_delete_chunk(st, s, c, ok) ==
    IF ok /\ st[s][c] # NoFile
    THEN [error |-> SUCCESS, store |-> [st EXCEPT ![s][c] = NoFile]]
    ELSE [error |-> ERROR_FTP, store |-> st]

netchunk_ftp_test_connection(s, okTest) ==
    IF s \in okTest THEN SUCCESS ELSE ERROR_FTP

netchunk_ftp_download_manifest(rem, ok) ==
    IF ok /\ rem # NoManifest
    THEN [error |-> SUCCESS, manifest |-> rem]
    ELSE [error |-> ERROR_FTP, manifest |-> NoManifest]

netchunk_ftp_upload_manifest(rem, manifest, ok) ==
    IF ok
    THEN [error |-> SUCCESS, remote |-> manifest]
    ELSE [error |-> ERROR_FTP, remote |-> rem]

(***************************************************************************)
(* Repair engine.                                                          *)
(***************************************************************************)
LocSet(chunk) == Range(chunk.locations)

find_server_by_id(server_id) ==
    IF server_id \in Servers THEN server_id ELSE NULL

\* a replica is downloaded into a temporary chunk and its hash verified
ReplicaValid(st, chunk, s, okDl) ==
    LET d == netchunk_ftp_download_chunk(st, s, chunk.id, s \in okDl)
    IN  /\ d.error = SUCCESS
        /\ netchunk_chunk_verify_integrity(chunk.hash, d.data) = SUCCESS

\* the health status of a chunk with healthy_count healthy replicas
DetermineHealth(healthy_count, replication_factor) ==
    IF healthy_count = 0 THEN CHUNK_LOST
    ELSE IF healthy_count = 1 THEN CHUNK_CRITICAL
    ELSE IF healthy_count < replication_factor THEN CHUNK_DEGRADED
    ELSE CHUNK_HEALTHY

netchunk_repair_check_chunk_health(st, chunk, replication_factor, okDl) ==
    LET locs == chunk.locations
        healthy_count ==
            Cardinality({i \in 1..Len(locs) :
                /\ find_server_by_id(locs[i]) # NULL
                /\ ReplicaValid(st, chunk, locs[i], okDl)})
    IN  [health |-> DetermineHealth(healthy_count, replication_factor),
         healthy_replicas |-> healthy_count]

\* cleanup keeps a location when its replica was downloaded and verified
CleanupKeeps(st, chunk, s, okDl) ==
    /\ find_server_by_id(s) # NULL
    /\ ReplicaValid(st, chunk, s, okDl)

netchunk_repair_cleanup_chunk(st, chunk, okDl, okDel) ==
    LET locs == chunk.locations
        Keep(s) == CleanupKeeps(st, chunk, s, okDl)
        valid_location_list == SelectSeq(locs, Keep)
        deleted == {s \in Range(locs) : find_server_by_id(s) # NULL /\ ~Keep(s)}
    IN  [chunk |-> [chunk EXCEPT !.locations = valid_location_list],
         store |-> [s \in Servers |->
                      IF s \in deleted
                      THEN netchunk_ftp_delete_chunk(st, s, chunk.id, s \in okDel).store[s]
                      ELSE st[s]],
         replicas_removed |-> Len(locs) - Len(valid_location_list),
         deletes |-> deleted]

\* the first server, in configuration order, that holds no replica of the
\* chunk and answers the connection test
select_server_for_replica(locs, okTest) ==
    LET server_usage == [s \in Servers |-> Cardinality({i \in 1..Len(locs) : locs[i] = s})]
        candidates == {s \in Servers :
                          /\ server_usage[s] = 0
                          /\ netchunk_ftp_test_connection(s, okTest) = SUCCESS}
    IN  IF candidates = {} THEN NULL
        ELSE CHOOSE s \in candidates : \A t \in candidates : s <= t

\* the loop that creates replicas_needed additional replicas
RECURSIVE RefillLoop(_, _, _, _, _, _, _, _)
RefillLoop(st, chunk, data, replicas_needed, okTest, okUp, replicas_added, uploads) ==
    LET target_server == select_server_for_replica(chunk.locations, okTest)
    IN  IF replicas_needed <= 0 \/ target_server = NULL
        THEN [error |-> SUCCESS, chunk |-> chunk, store |-> st,
              replicas_added |-> replicas_added, uploads |-> uploads]
        ELSE LET u == netchunk_ftp_upload_chunk(st, target_server, chunk.id, data,
                                                target_server \in okUp)
                 added == u.error = SUCCESS
                          /\ Len(chunk.locations) < NETCHUNK_MAX_CHUNK_LOCATIONS
             IN  RefillLoop(u.store,
                            IF added
                            THEN [chunk EXCEPT !.locations = Append(@, target_server)]
                            ELSE chunk,
                            data, replicas_needed - 1, okTest, okUp,
                            IF added THEN replicas_added + 1 ELSE replicas_added,
                            uploads \cup {target_server})

netchunk_repair_chunk(st, chunk, target_replication, okDl, okTest, okUp) ==
    LET locs == chunk.locations
        good == {i \in 1..Len(locs) :
                    /\ find_server_by_id(locs[i]) # NULL
                    /\ ReplicaValid(st, chunk, locs[i], okDl)}
        have_valid_data == good # {}
        first == CHOOSE i \in good : \A j \in good : i <= j
        working_data == st[locs[first]][chunk.id]
    IN  IF ~have_valid_data
        THEN [error |-> ERROR_CHUNK_INTEGRITY, chunk |-> chunk, store |-> st,
              replicas_added |-> 0, uploads |-> {}]
        ELSE RefillLoop(st, chunk, working_data, target_replication - Len(locs),
                        okTest, okUp, 0, {})

\* a repair condition that does not look at the mode
RepairNeeded_IgnoresMode(repair_mode, health) ==
    health # CHUNK_HEALTHY

\* netchunk_repair_file repairs a chunk when this holds
RepairNeeded(repair_mode, health) ==
    repair_mode # REPAIR_VERIFY_ONLY /\ health # CHUNK_HEALTHY

\* a pass that never rewrites the manifest
ManifestRewriteNeeded_Never(repair_mode, stats) ==
    FALSE

\* netchunk_repair_file rewrites the manifest when this holds
ManifestRewriteNeeded(repair_mode, stats) ==
    repair_mode # REPAIR_VERIFY_ONLY /\ stats.chunks_repaired > 0

NoStats == [chunks_verified |-> 0, chunks_healthy |-> 0, chunks_degraded |-> 0,
            chunks_critical |-> 0, chunks_lost |-> 0, chunks_repaired |-> 0,
            replicas_added |-> 0, replicas_removed |-> 0]

CountHealth(stats, health) ==
    IF health = CHUNK_HEALTHY THEN [stats EXCEPT !.chunks_healthy = @ + 1]
    ELSE IF health = CHUNK_DEGRADED THEN [stats EXCEPT !.chunks_degraded = @ + 1]
    ELSE IF health = CHUNK_CRITICAL THEN [stats EXCEPT !.chunks_critical = @ + 1]
    ELSE [stats EXCEPT !.chunks_lost = @ + 1]

\* the end of one iteration of the loop over the chunks
NextChunk(r) ==
    IF r.i >= r.manifest.chunk_count
    THEN [r EXCEPT !.pc = "finish"]
    ELSE [r EXCEPT !.pc = "check", !.i = @ + 1]

\* netchunk_repair_file, up to the loop over the chunks
RepairBegin ==
    /\ rep.pc = "idle" /\ vfy.pc = "idle"
    /\ \E repair_mode \in RepairModes, okM \in BOOLEAN :
          LET m == netchunk_ftp_download_manifest(remote, okM)
          IN  rep' = IF m.error # SUCCESS
                     THEN [pc |-> "done", result |-> m.error, mode |-> repair_mode]
                     ELSE NextChunk([pc |-> "check", result |-> SUCCESS,
                                     mode |-> repair_mode, i |-> 0,
                                     manifest |-> m.manifest,
                                     health |-> [c \in {} |-> CHUNK_LOST],
                                     healthy_replicas |-> [c \in {} |-> 0],
                                     stats |-> [NoStats EXCEPT !.chunks_verified =
                                                   m.manifest.chunk_count]])
    /\ UNCHANGED <<local, config, store, remote, calls, hist, vfy, upl, dl>>

\* one iteration: the health check of chunk i
RepairCheck ==
    /\ rep.pc = "check"
    /\ LET chunk == rep.manifest.chunks[rep.i]
       IN  \E okDl \in SUBSET LocSet(chunk) :
             LET h == netchunk_repair_check_chunk_health(store, chunk,
                          config.replication_factor, okDl)
                 r == [rep EXCEPT !.stats = CountHealth(@, h.health),
                                  !.health = (rep.i :> h.health) @@ @,
                                  !.healthy_replicas = (rep.i :> h.healthy_replicas) @@ @]
             IN  rep' = IF RepairNeeded(rep.mode, h.health)
                        THEN [r EXCEPT !.pc = "cleanup"]
                        ELSE NextChunk(r)
    /\ UNCHANGED <<local, config, store, remote, calls, hist, vfy, upl, dl>>

\* one iteration: the cleanup of chunk i
RepairCleanup ==
    /\ rep.pc = "cleanup"
    /\ LET chunk == rep.manifest.chunks[rep.i]
       IN  \E okDl \in SUBSET LocSet(chunk) :
           \E okDel \in SUBSET {s \in LocSet(chunk) : ~CleanupKeeps(store, chunk, s, okDl)} :
             LET cl == netchunk_repair_cleanup_chunk(store, chunk, okDl, okDel)
                 r == [rep EXCEPT !.manifest.chunks[rep.i] = cl.chunk,
                                  !.stats.replicas_removed = @ + cl.replicas_removed]
             IN  /\ store' = cl.store
                 /\ calls' = calls \cup {<<"delete", s, chunk.id>> : s \in cl.deletes}
                 /\ rep' = IF rep.health[rep.i] # CHUNK_LOST
                            THEN [r EXCEPT !.pc = "refill"]
                            ELSE NextChunk(r)
    /\ UNCHANGED <<local, config, remote, hist, vfy, upl, dl>>

\* one iteration: the re-replication of chunk i
RepairRefill ==
    /\ rep.pc = "refill"
    /\ LET chunk == rep.manifest.chunks[rep.i]
       IN  \E okDl \in SUBSET LocSet(chunk), okTest \in SUBSET (Servers \ LocSet(chunk)) :
           \E okUp \in SUBSET okTest :
             LET rc == netchunk_repair_chunk(store, chunk, config.replication_factor,
                                             okDl, okTest, okUp)
                 repaired == rc.error = SUCCESS /\ rc.replicas_added > 0
                 r == [rep EXCEPT !.manifest.chunks[rep.i] = rc.chunk,
                                  !.stats.replicas_added =
                                      IF repaired THEN @ + rc.replicas_added ELSE @,
                                  !.stats.chunks_repaired =
                                      IF repaired THEN @ + 1 ELSE @]
             IN  /\ store' = rc.store
                 /\ calls' = calls \cup {<<"upload", s, chunk.id>> : s \in rc.uploads}
                 /\ rep' = NextChunk(r)
    /\ UNCHANGED <<local, config, remote, hist, vfy, upl, dl>>

\* netchunk_repair_file, after the loop over the chunks
RepairFinish ==
    /\ rep.pc = "finish"
    /\ \E okM \in BOOLEAN :
          IF ManifestRewriteNeeded(rep.mode, rep.stats)
          THEN /\ remote' = netchunk_ftp_upload_manifest(remote, rep.manifest, okM).remote
               /\ calls' = calls \cup {<<"manifest", NULL, NULL>>}
          ELSE UNCHANGED <<remote, calls>>
    /\ rep' = [rep EXCEPT !.pc = "done"]
    /\ UNCHANGED <<local, config, store, hist, vfy, upl, dl>>

(***************************************************************************)
(* Initial states: a stored file.  The manifest satisfies the data model;  *)
(* every chunk has between 1 and replication_factor locations on distinct  *)
(* servers, and each recorded replica is byte exact or has a flipped byte. *)
(***************************************************************************)
RECURSIVE SortedSeq(_)
SortedSeq(P) ==
    IF P = {} THEN <<>>
    ELSE LET m == CHOOSE s \in P : \A t \in P : s <= t
         IN  <<m>> \o SortedSeq(P \ {m})

LocLists(replication_factor) ==
    {SortedSeq(P) : P \in {Q \in SUBSET Servers : Q # {} /\ Cardinality(Q) <= replication_factor}}

Configs ==
    [replication_factor : {r \in 1..NumServers :
                              /\ r >= NETCHUNK_MIN_REPLICATION_FACTOR
                              /\ r <= NETCHUNK_MAX_REPLICATION_FACTOR},
     max_retry_attempts : 0..MaxRetryAttempts,
     chunk_size : 1..MaxChunkSize]

StoredManifest(file, S, placement) ==
    LET n == netchunk_calculate_chunk_count(Len(file), S)
    IN  [total_size |-> Len(file),
         chunk_count |-> n,
         chunks |-> [c \in 1..n |->
                       [NewChunk(file, S, c - 1) EXCEPT !.locations = placement[c]]]]

StoredReplicas(file, S, manifest, bad) ==
    [s \in Servers |-> [c \in ChunkIds |->
        IF c > manifest.chunk_count \/ s \notin LocSet(manifest.chunks[c]) THEN NoFile
        ELSE IF <<s, c>> \in bad THEN Corrupt(read_file_chunk(file, (c - 1) * S, S))
        ELSE read_file_chunk(file, (c - 1) * S, S)]]

InitStored ==
    /\ config \in Configs
    /\ \E T \in 1..MaxFileSize :
         LET file == FileOfSize(T)
             n == netchunk_calculate_chunk_count(T, config.chunk_size)
         IN  \E placement \in [1..n -> LocLists(config.replication_factor)] :
               /\ remote = StoredManifest(file, config.chunk_size, placement)
               /\ \E bad \in SUBSET {<<s, c>> \in Servers \X (1..n) : s \in Range(placement[c])} :
                     store = StoredReplicas(file, config.chunk_size, remote, bad)
    /\ calls = {}
    /\ hist = [store |-> store, remote |-> remote]

(***************************************************************************)
(* netchunk_verify (the verify command of the CLI).                        *)
(***************************************************************************)
\* the data left in the chunk buffer by the downloads of the replicas in
\* order: each successful download overwrites it
RECURSIVE LastDownloaded(_, _, _, _, _)
LastDownloaded(st, chunk, okDl, i, data) ==
    IF i > Len(chunk.locations) THEN data
    ELSE LET s == chunk.locations[i]
             d == netchunk_ftp_download_chunk(st, s, chunk.id, s \in okDl)
         IN  LastDownloaded(st, chunk, okDl, i + 1,
                 IF find_server_by_id(s) # NULL /\ d.error = SUCCESS THEN d.data ELSE data)

\* netchunk_verify re-replicates a chunk when this holds
VerifyRepairs(repair, healthy_replicas, replication_factor, chunk_ok) ==
    repair /\ healthy_replicas < replication_factor /\ chunk_ok

\* the re-replication loop over the servers in configuration order
RECURSIVE VerifyUploadLoop(_, _, _, _, _, _, _, _)
VerifyUploadLoop(st, chunk, data, server_idx, target_replicas, okUp, repaired, uploads) ==
    IF server_idx > NumServers \/ target_replicas <= 0
    THEN [store |-> st, repaired |-> repaired, uploads |-> uploads]
    ELSE IF server_idx \in LocSet(chunk)
    THEN VerifyUploadLoop(st, chunk, data, server_idx + 1, target_replicas, okUp,
                          repaired, uploads)
    ELSE LET u == netchunk_ftp_upload_chunk(st, server_idx, chunk.id, data,
                                            server_idx \in okUp)
         IN  VerifyUploadLoop(u.store, chunk, data, server_idx + 1,
                 IF u.error = SUCCESS THEN target_replicas - 1 ELSE target_replicas,
                 okUp,
                 IF u.error = SUCCESS THEN repaired + 1 ELSE repaired,
                 uploads \cup {server_idx})

\* netchunk_verify, up to the loop over the chunks
VerifyBegin ==
    /\ vfy.pc = "idle" /\ rep.pc = "idle"
    /\ \E repair \in BOOLEAN, okM \in BOOLEAN :
          LET m == netchunk_ftp_download_manifest(remote, okM)
          IN  vfy' = IF m.error # SUCCESS
                     THEN [pc |-> "done", result |-> m.error, repair |-> repair]
                     ELSE [pc |-> IF m.manifest.chunk_count = 0 THEN "done" ELSE "chunk",
                           result |-> SUCCESS, repair |-> repair, i |-> 1,
                           manifest |-> m.manifest,
                           chunks_verified |-> 0, chunks_repaired |-> 0]
    /\ UNCHANGED <<local, config, store, remote, calls, hist, rep, upl, dl>>

\* one iteration of the loop over the chunks, with the downloads from the
\* servers of okDl and the uploads to the servers of okUp succeeding
VerifyChunkOn(okDl, okUp) ==
    /\ vfy.pc = "chunk"
    /\ LET chunk == vfy.manifest.chunks[vfy.i]
       IN    LET healthy == {j \in 1..Len(chunk.locations) :
                               /\ find_server_by_id(chunk.locations[j]) # NULL
                               /\ ReplicaValid(store, chunk, chunk.locations[j], okDl)}
                 healthy_replicas == Cardinality(healthy)
                 chunk_ok == healthy # {}
                 data == LastDownloaded(store, chunk, okDl, 1, NoData)
                 up == IF VerifyRepairs(vfy.repair, healthy_replicas,
                                        config.replication_factor, chunk_ok)
                       THEN VerifyUploadLoop(store, chunk, data, 1,
                                config.replication_factor - healthy_replicas, okUp, 0, {})
                       ELSE [store |-> store, repaired |-> 0, uploads |-> {}]
             IN  /\ store' = up.store
                 /\ calls' = calls \cup {<<"upload", s, chunk.id>> : s \in up.uploads}
                 /\ vfy' = [vfy EXCEPT
                              !.chunks_verified = @ + 1,
                              !.chunks_repaired = @ + up.repaired,
                              !.i = @ + 1,
                              !.pc = IF vfy.i >= vfy.manifest.chunk_count
                                     THEN "done" ELSE "chunk"]
    /\ UNCHANGED <<local, config, remote, hist, rep, upl, dl>>

\* one iteration of the loop over the chunks
VerifyChunk ==
    \E okDl \in SUBSET Servers, okUp \in SUBSET Servers :
       /\ vfy.pc = "chunk"
       /\ okDl \subseteq LocSet(vfy.manifest.chunks[vfy.i])
       /\ okUp \cap LocSet(vfy.manifest.chunks[vfy.i]) = {}
       /\ VerifyChunkOn(okDl, okUp)

InitRepair ==
    /\ InitStored
    /\ config.max_retry_attempts = 0
    /\ config.chunk_size = MaxChunkSize
    /\ remote.chunk_count = 1
    /\ rep = Idle /\ vfy = Idle /\ upl = Idle /\ dl = Idle
    /\ LocalIdle

NextRepair ==
    \/ RepairBegin
    \/ RepairCheck
    \/ RepairCleanup
    \/ RepairRefill
    \/ RepairFinish
    \/ VerifyBegin
    \/ VerifyChunk

SpecRepair == InitRepair /\ [][NextRepair]_vars

(***************************************************************************)
(* netchunk_download.                                                      *)
(***************************************************************************)
\* a failure path that leaves the output file in place
RemoveOutput_Keeps(d) == d

\* fclose(output_file); remove(local_path)
RemoveOutput(d) == [d EXCEPT !.out_exists = FALSE, !.out = <<>>]

\* the position of the download loops after the loop headers have been
\* evaluated: the next attempt to make, or the end of the download
RECURSIVE DownloadAdvance(_)
DownloadAdvance(d) ==
    IF d.i > d.manifest.chunk_count
    THEN [d EXCEPT !.pc = "done", !.result = SUCCESS]
    ELSE LET chunk == d.manifest.chunks[d.i]
         IN  IF d.loc_idx > Len(chunk.locations)
             THEN \* no location gave the chunk: remove(local_path)
                  RemoveOutput([d EXCEPT !.pc = "done",
                                         !.result = ERROR_DOWNLOAD_FAILED])
             ELSE IF \/ find_server_by_id(chunk.locations[d.loc_idx]) = NULL
                     \/ d.attempt >= config.max_retry_attempts
             THEN DownloadAdvance([d EXCEPT !.loc_idx = @ + 1, !.attempt = 0])
             ELSE d

\* netchunk_download, up to the loop over the chunks
DownloadBegin ==
    /\ dl.pc = "idle"
    /\ \E okM \in BOOLEAN, okOpen \in BOOLEAN :
          LET m == netchunk_ftp_download_manifest(remote, okM)
          IN  dl' = IF m.error # SUCCESS
                    THEN [pc |-> "done", result |-> m.error, faults |-> ~okM,
                          out_exists |-> FALSE, out |-> <<>>, writes |-> {}]
                    ELSE IF ~okOpen
                    THEN [pc |-> "done", result |-> ERROR_FILE_ACCESS, faults |-> TRUE,
                          out_exists |-> FALSE, out |-> <<>>, writes |-> {}]
                    ELSE DownloadAdvance(
                           [pc |-> "attempt", result |-> SUCCESS,
                            manifest |-> m.manifest, i |-> 1, loc_idx |-> 1,
                            attempt |-> 0, faults |-> FALSE, short_writes |-> 0,
                            out_exists |-> TRUE, out |-> <<>>, writes |-> {}])
    /\ UNCHANGED <<local, config, store, remote, calls, hist, rep, vfy, upl>>

\* one attempt: download the replica, verify it, write it.  faults records
\* that the network or the local disk failed a call of the download, writes
\* the calls of fwrite; the statistics (retries) are not modelled
DownloadAttempt ==
    /\ dl.pc = "attempt"
    /\ LET chunk == dl.manifest.chunks[dl.i]
           s == chunk.locations[dl.loc_idx]
       IN  \E ok \in BOOLEAN :
             LET d == netchunk_ftp_download_chunk(store, s, chunk.id, ok)
             IN  IF d.error # SUCCESS
                 THEN dl' = DownloadAdvance([dl EXCEPT !.attempt = @ + 1,
                                                       !.faults = @ \/ ~ok])
                 ELSE IF netchunk_chunk_verify_integrity(chunk.hash, d.data) # SUCCESS
                 THEN dl' = DownloadAdvance([dl EXCEPT !.attempt = @ + 1])
                 ELSE \E written \in IF dl.short_writes < MaxShortWrites
                                      THEN 0..chunk.size ELSE {chunk.size} :
                        LET w == [dl EXCEPT
                                    !.out = @ \o SubSeq(d.data, 1, written),
                                    !.faults = @ \/ written < chunk.size,
                                    !.short_writes =
                                        IF written < chunk.size THEN @ + 1 ELSE @,
                                    !.writes = @ \cup {[chunk |-> dl.i, server |-> s,
                                                        data |-> d.data,
                                                        written |-> written]}]
                        IN  dl' = DownloadAdvance(
                                    IF written = chunk.size
                                    THEN [w EXCEPT !.i = @ + 1, !.loc_idx = 1,
                                                   !.attempt = 0]
                                    ELSE [w EXCEPT !.attempt = @ + 1])
    /\ UNCHANGED <<local, config, store, remote, calls, hist, rep, vfy, upl>>

\* a stored file of at most two chunks (the chunks are downloaded one after
\* the other, each by the same loop)
InitDownload ==
    /\ InitStored
    /\ config.replication_factor <= MaxStoredReplicas
    /\ config.chunk_size >= MaxChunkSize - 1
    /\ rep = Idle /\ vfy = Idle /\ upl = Idle /\ dl = Idle
    /\ LocalIdle

NextDownload ==
    \/ DownloadBegin
    \/ DownloadAttempt

SpecDownload == InitDownload /\ [][NextDownload]_vars

(***************************************************************************)
(* netchunk_upload.  Memory allocation is taken to succeed.                *)
(***************************************************************************)
netchunk_chunker_init(file, chunk_size) ==
    [input_file |-> file,
     chunk_size |-> chunk_size,
     total_file_size |-> Len(file),
     total_chunks |-> netchunk_calculate_chunk_count(Len(file), chunk_size),
     current_chunk_number |-> 0,
     bytes_processed |-> 0,
     finished |-> FALSE]

\* okRead: fread does not report an error
netchunk_chunker_next_chunk(context, okRead) ==
    LET data == read_file_chunk(context.input_file, context.bytes_processed,
                                context.chunk_size)
        bytes_read == IF okRead THEN Len(data) ELSE 0
    IN  IF context.finished
        THEN [error |-> ERROR_FILE_NOT_FOUND, context |-> context]
        ELSE IF ~okRead
        THEN [error |-> ERROR_FILE_ACCESS, context |-> context]
        ELSE IF bytes_read = 0
        THEN [error |-> ERROR_FILE_NOT_FOUND,
              context |-> [context EXCEPT !.finished = TRUE]]
        ELSE [error |-> SUCCESS,
              chunk |-> NewChunk(context.input_file, context.chunk_size,
                                 context.current_chunk_number),
              data |-> data,
              context |-> [context EXCEPT
                             !.current_chunk_number = @ + 1,
                             !.bytes_processed = @ + bytes_read,
                             !.finished = (context.bytes_processed + bytes_read
                                             >= context.total_file_size)]]

netchunk_manifest_init(file_size) ==
    [total_size |-> file_size, chunk_count |-> 0, chunks |-> <<>>]

\* an insertion at the front of the chunk array
netchunk_manifest_add_chunk_AtFront(manifest, chunk) ==
    [manifest EXCEPT !.chunks = <<chunk>> \o @, !.chunk_count = @ + 1]

netchunk_manifest_add_chunk(manifest, chunk) ==
    [manifest EXCEPT !.chunks = Append(@, chunk), !.chunk_count = @ + 1]

\* a replica-count check that demands the full replication factor
UploadFails_BelowTarget(successful_replicas, target_replicas) ==
    successful_replicas < target_replicas

\* netchunk_upload gives up on a chunk when this holds
UploadFails(successful_replicas, target_replicas) ==
    successful_replicas = 0

\* the position of the upload loops after the loop headers have been
\* evaluated: the next attempt to make, or the end of the chunk's fan-out
RECURSIVE UploadAdvance(_)
UploadAdvance(u) ==
    IF u.server_idx > NumServers \/ u.successful_replicas >= config.replication_factor
    THEN IF UploadFails(u.successful_replicas, config.replication_factor)
         THEN [u EXCEPT !.pc = "done", !.result = ERROR_UPLOAD_FAILED]
         ELSE [u EXCEPT !.pc = "next",
                        !.manifest = netchunk_manifest_add_chunk(@, u.chunk)]
    ELSE IF u.attempt >= config.max_retry_attempts
    THEN UploadAdvance([u EXCEPT !.server_idx = @ + 1, !.attempt = 0])
    ELSE u

\* netchunk_upload, up to the loop over the chunks
UploadBegin ==
    /\ upl.pc = "idle" /\ dl.pc = "idle"
    /\ \E exists \in BOOLEAN, T \in 0..MaxFileSize :
          upl' = IF ~exists
                 THEN [pc |-> "done", result |-> ERROR_FILE_NOT_FOUND,
                       file |-> <<>>, exists |-> FALSE]
                 ELSE [pc |-> "next", result |-> SUCCESS,
                       file |-> FileOfSize(T), exists |-> TRUE,
                       chunker |-> netchunk_chunker_init(FileOfSize(T), config.chunk_size),
                       manifest |-> netchunk_manifest_init(T),
                       chunk |-> NewChunk(<<>>, config.chunk_size, 0), data |-> NoData,
                       server_idx |-> 1, attempt |-> 0, successful_replicas |-> 0,
                       successes |-> [c \in ChunkIds |-> 0], cancelled |-> FALSE]
    /\ UNCHANGED <<local, config, store, remote, calls, hist, rep, vfy, dl>>

\* the header of the loop over the chunks and, when the chunker gives no
\* chunk, the rest of netchunk_upload
UploadNextChunk ==
    /\ upl.pc = "next"
    /\ \E okRead \in BOOLEAN, okM \in BOOLEAN :
          LET n == netchunk_chunker_next_chunk(upl.chunker, okRead)
          IN  IF n.error = SUCCESS
              THEN /\ upl' = UploadAdvance([upl EXCEPT !.pc = "attempt",
                                              !.chunker = n.context,
                                              !.chunk = n.chunk, !.data = n.data,
                                              !.server_idx = 1, !.attempt = 0,
                                              !.successful_replicas = 0])
                   /\ UNCHANGED <<remote, calls>>
              ELSE IF n.error # ERROR_EOF
              THEN /\ upl' = [upl EXCEPT !.pc = "done", !.result = n.error,
                                         !.chunker = n.context]
                   /\ UNCHANGED <<remote, calls>>
              ELSE LET m == netchunk_ftp_upload_manifest(remote, upl.manifest, okM)
                   IN  /\ upl' = [upl EXCEPT !.pc = "done", !.result = m.error,
                                             !.chunker = n.context]
                       /\ remote' = m.remote
                       /\ calls' = calls \cup {<<"manifest", NULL, NULL>>}
    /\ UNCHANGED <<local, config, store, hist, rep, vfy, dl>>

\* the error kinds of a chunk upload that failed
UploadErrors == {"NETCHUNK_ERROR_FTP", "NETCHUNK_ERROR_CANCELLED"}

\* one attempt to upload the chunk to server server_idx.  A location is
\* modelled by the index of the servers[] entry whose id it copies;
\* successes counts the uploads of each chunk that succeeded, cancelled
\* records that an upload returned NETCHUNK_ERROR_CANCELLED
UploadAttempt ==
    /\ upl.pc = "attempt"
    /\ \E ok \in BOOLEAN :
       \E error \in IF ok THEN {"NETCHUNK_SUCCESS"} ELSE UploadErrors :
          LET u == netchunk_ftp_upload_chunk(store, upl.server_idx, upl.chunk.id,
                                             upl.data, ok)
          IN  /\ store' = u.store
              /\ calls' = calls \cup {<<"upload", upl.server_idx, upl.chunk.id>>}
              /\ upl' = UploadAdvance(
                   IF u.error = SUCCESS
                   THEN [upl EXCEPT
                           !.chunk.locations =
                               IF Len(@) < NETCHUNK_MAX_CHUNK_LOCATIONS
                               THEN Append(@, upl.server_idx) ELSE @,
                           !.successful_replicas = @ + 1,
                           !.successes[upl.chunk.id] = @ + 1,
                           !.server_idx = @ + 1, !.attempt = 0]
                   ELSE [upl EXCEPT !.attempt = @ + 1,
                                    !.cancelled = @ \/ error = "NETCHUNK_ERROR_CANCELLED"])
    /\ UNCHANGED <<local, config, remote, hist, rep, vfy, dl>>

\* the id of a server entry that was never given one: the empty string
NoServerId == 0

\* the ids of the configured servers: as netchunk_config_load_file leaves
\* them (no key of a server section sets the id), or set by the caller
ServerIds == {[s \in Servers |-> NoServerId], [s \in Servers |-> s]}

UploadConfigs ==
    {[replication_factor |-> c.replication_factor,
      max_retry_attempts |-> c.max_retry_attempts,
      chunk_size |-> c.chunk_size,
      server_id |-> ids] : c \in Configs, ids \in ServerIds}

\* nothing is stored yet
InitUpload ==
    /\ config \in UploadConfigs
    /\ store = [s \in Servers |-> [c \in ChunkIds |-> NoFile]]
    /\ remote = NoManifest
    /\ calls = {}
    /\ hist = [store |-> store, remote |-> remote]
    /\ rep = Idle /\ vfy = Idle /\ upl = Idle /\ dl = Idle
    /\ LocalIdle

\* an upload, and after it a download of the file under the same name
DownloadAfterUpload ==
    /\ upl.pc = "done"
    /\ (DownloadBegin \/ DownloadAttempt)

NextUpload ==
    \/ UploadBegin
    \/ UploadNextChunk
    \/ UploadAttempt
    \/ DownloadAfterUpload

SpecUpload == InitUpload /\ [][NextUpload]_vars

(***************************************************************************)
(* Properties of the repair engine.                                        *)
(***************************************************************************)
\* the replica of the chunk on server s is present and has the recorded hash
Good(st, chunk, s) ==
    /\ st[s][chunk.id] # NoFile
    /\ netchunk_sha256_hash(st[s][chunk.id]) = chunk.hash

\* the healthy replicas of chunk c: the recorded locations whose server
\* holds a replica with the recorded hash
HealthyReplicas(st, manifest, c) ==
    {s \in LocSet(manifest.chunks[c]) : Good(st, manifest.chunks[c], s)}

\* a repair pass has read the manifest and is at or after its loop
InPass == rep.pc \in {"check", "cleanup", "refill", "finish"}
          \/ (rep.pc = "done" /\ rep.result = SUCCESS)

\* C1: during a repair pass a replica is deleted or its location dropped
\* only if another server holds a verified copy at that moment: after every
\* cleanup step, each location that was dropped or sent a delete has a
\* surviving location, kept because it verified, whose replica is good.
C1_DeleteOnlyWithVerifiedCopy ==
    [][rep.pc = "cleanup" =>
        LET chunk == rep.manifest.chunks[rep.i]
            after == rep'.manifest.chunks[rep.i]
        IN  \A s \in LocSet(chunk) :
              (s \notin LocSet(after) \/ <<"delete", s, chunk.id>> \in calls')
              => \E t \in LocSet(after) \ {s} : Good(store', chunk, t)]_vars

\* C2: after an auto-repair pass every chunk has at least as many healthy
\* replicas as before the pass.
C2_RepairMonotone ==
    (rep.pc = "done" /\ rep.result = SUCCESS /\ rep.mode = REPAIR_AUTO)
    => \A c \in 1..remote.chunk_count :
         Cardinality(HealthyReplicas(store, remote, c))
             >= Cardinality(HealthyReplicas(hist.store, hist.remote, c))

\* C3: cleanup removes a replica only if it was downloaded and its hash
\* differs: every location a cleanup step drops, and every replica it
\* deletes, is one whose stored bytes do not have the recorded hash.
C3_CleanupRemovesOnlyBadHash ==
    [][rep.pc = "cleanup" =>
        LET chunk == rep.manifest.chunks[rep.i]
            after == rep'.manifest.chunks[rep.i]
        IN  \A s \in LocSet(chunk) :
              (s \notin LocSet(after) \/ store'[s][chunk.id] # store[s][chunk.id])
              => (store[s][chunk.id] # NoFile /\ ~Good(store, chunk, s))]_vars

\* C4: a verify-only run sends no upload and no delete, changes no chunk's
\* locations and does not rewrite the manifest.
C4_VerifyOnlyNoMutation ==
    /\ (InPass /\ rep.mode = REPAIR_VERIFY_ONLY)
         => /\ calls = {}
            /\ store = hist.store
            /\ remote = hist.remote
            /\ rep.manifest = hist.remote
    /\ (vfy.pc \in {"chunk", "done"} /\ ~vfy.repair)
         => /\ calls = {}
            /\ store = hist.store
            /\ remote = hist.remote

\* a verify-only repair pass has ended on a chunk that is not healthy
C4_Witness ==
    /\ rep.pc = "done" /\ rep.result = SUCCESS
    /\ rep.mode = REPAIR_VERIFY_ONLY
    /\ rep.stats.chunks_healthy = 0
    /\ rep.stats.chunks_verified > 0

\* C5: a chunk classified LOST is left alone by the pass: its locations
\* stay as recorded and no delete is sent for it.
C5_LostIsTerminal ==
    InPass =>
      \A c \in DOMAIN rep.health :
        rep.health[c] = CHUNK_LOST
        => /\ rep.manifest.chunks[c].locations = hist.remote.chunks[c].locations
           /\ \A s \in Servers : <<"delete", s, c>> \notin calls

\* the classification of the specification, for h healthy replicas
HealthTable(h, R) ==
    IF h >= R THEN CHUNK_HEALTHY
    ELSE IF h >= 2 THEN CHUNK_DEGRADED
    ELSE IF h = 1 THEN CHUNK_CRITICAL
    ELSE CHUNK_LOST

\* C6: a probed chunk with h healthy replicas is HEALTHY iff h >= R,
\* otherwise DEGRADED if h >= 2, CRITICAL if h = 1, LOST if h = 0.
C6_HealthClassification ==
    InPass =>
      \A c \in DOMAIN rep.health :
        rep.health[c] = HealthTable(rep.healthy_replicas[c], config.replication_factor)

(***************************************************************************)
(* Properties of netchunk_download.                                        *)
(***************************************************************************)
DownloadSucceeded == dl.pc = "done" /\ dl.result = SUCCESS

\* C7: when download returns success, every write to the output file took
\* its bytes from a replica whose SHA-256 equals the chunk's recorded hash,
\* every chunk was written, and no corrupted replica contributed bytes.
C7_DownloadIntegrity ==
    DownloadSucceeded =>
      /\ \A w \in dl.writes :
           LET chunk == dl.manifest.chunks[w.chunk]
           IN  /\ w.data = store[w.server][chunk.id]
               /\ netchunk_sha256_hash(w.data) = chunk.hash
               /\ Good(store, chunk, w.server)
      /\ \A c \in 1..dl.manifest.chunk_count :
           \E w \in dl.writes :
              w.chunk = c /\ w.written = dl.manifest.chunks[c].size

\* a successful download that skipped a corrupted first replica of a chunk
\* and took the chunk from a later location
C7_Witness ==
    /\ DownloadSucceeded
    /\ \E c \in 1..dl.manifest.chunk_count :
         LET chunk == dl.manifest.chunks[c]
         IN  /\ Len(chunk.locations) >= 2
             /\ store[chunk.locations[1]][chunk.id] # NoFile
             /\ ~Good(store, chunk, chunk.locations[1])
             /\ \E w \in dl.writes :
                  w.chunk = c /\ w.server = chunk.locations[2]

(***************************************************************************)
(* Properties of netchunk_upload.                                          *)
(***************************************************************************)
\* the servers that hold a replica of chunk c
Holders(c) == {s \in Servers : store[s][c] # NoFile}

\* the upload is between two chunks, or has returned
BetweenChunks == upl.pc = "next" \/ (upl.pc = "done" /\ upl.exists)

\* every chunk of the input file has a byte-exact replica on some server
AllChunksStored ==
    \A k \in 0..(netchunk_calculate_chunk_count(Len(upl.file), config.chunk_size) - 1) :
       \E s \in Servers :
          store[s][k + 1] = read_file_chunk(upl.file, k * config.chunk_size,
                                            config.chunk_size)

\* C8: uploading a non-empty file and then downloading it under the same
\* name yields the same bytes, when a replica of every chunk is on the
\* servers and no call of the download is failed by the network or disk.
C8_RoundTrip ==
    (/\ upl.pc = "done" /\ upl.exists /\ Len(upl.file) > 0
     /\ AllChunksStored
     /\ dl.pc = "done" /\ ~dl.faults)
    => (dl.result = SUCCESS /\ dl.out_exists /\ dl.out = upl.file)

\* C9: a chunk that got no replica ends the upload with UploadFailed; a
\* chunk that got at least one replica is recorded in the manifest with
\* exactly the locations that succeeded, and the upload goes on.
C9_UploadReplicaOutcome ==
    BetweenChunks =>
      /\ \A c \in 1..upl.chunker.current_chunk_number :
           IF Holders(c) = {}
           THEN /\ upl.pc = "done" /\ upl.result = ERROR_UPLOAD_FAILED
                /\ c = upl.chunker.current_chunk_number
                /\ upl.manifest.chunk_count = c - 1
           ELSE /\ c <= upl.manifest.chunk_count
                /\ upl.manifest.chunks[c].sequence_number = c - 1
                /\ LocSet(upl.manifest.chunks[c]) = Holders(c)
                /\ Len(upl.manifest.chunks[c].locations) = Cardinality(Holders(c))
      /\ (upl.pc = "done" /\ upl.result = ERROR_UPLOAD_FAILED)
           => Holders(upl.chunker.current_chunk_number) = {}

\* the upload went on after recording a chunk with fewer replicas than the
\* replication factor
C9_Witness ==
    /\ BetweenChunks
    /\ upl.manifest.chunk_count = 2
    /\ Len(upl.manifest.chunks[1].locations) < config.replication_factor

\* C10: when every chunk of a non-empty file got a replica, the end of the
\* chunk sequence is not returned as an error: the manifest is written, and
\* the upload returns success if the write succeeded.
C10_UploadCompletes ==
    (/\ upl.pc = "done" /\ upl.exists /\ Len(upl.file) > 0
     /\ upl.manifest.chunk_count = upl.chunker.total_chunks)
    => /\ <<"manifest", NULL, NULL>> \in calls
       /\ upl.result \in {SUCCESS, ERROR_FTP}
       /\ remote = upl.manifest => upl.result = SUCCESS

\* the upload has recorded every chunk of a non-empty input file
UploadRecordedAll ==
    /\ upl.pc = "done" /\ upl.exists /\ Len(upl.file) > 0
    /\ upl.manifest.chunk_count = upl.chunker.total_chunks

\* C11: after an upload that stored every chunk, each chunk's locations has
\* as many entries as uploads of the chunk succeeded, and the server_id
\* values of the entries are pairwise distinct.
C11_LocationsMatchReplicas ==
    UploadRecordedAll =>
      \A c \in 1..upl.manifest.chunk_count :
        LET locs == upl.manifest.chunks[c].locations
        IN  /\ Len(locs) = upl.successes[c]
            /\ \A i, j \in 1..Len(locs) :
                 i # j => config.server_id[locs[i]] # config.server_id[locs[j]]

\* the sum of the sizes of the chunks
RECURSIVE SizeSum(_)
SizeSum(chunks) ==
    IF chunks = <<>> THEN 0 ELSE Head(chunks).size + SizeSum(Tail(chunks))

\* C12: in every manifest the upload builds the chunk at index i has
\* sequence number i, and once every chunk is recorded the chunk sizes sum
\* to total_size.
C12_ManifestDensity ==
    (upl.pc # "idle" /\ upl.exists) =>
      /\ upl.manifest.chunk_count = Len(upl.manifest.chunks)
      /\ \A i \in 1..upl.manifest.chunk_count :
           upl.manifest.chunks[i].sequence_number = i - 1
      /\ (upl.pc = "done" /\ upl.manifest.chunk_count = upl.chunker.total_chunks)
           => SizeSum(upl.manifest.chunks) = upl.manifest.total_size

\* the upload has recorded both chunks of a two-chunk file
C12_Witness ==
    UploadRecordedAll /\ upl.manifest.chunk_count = 2

\* C13: when no recorded replica of some chunk has the recorded hash, the
\* download returns DownloadFailed; a download that returns DownloadFailed
\* stopped at the chunk it could not get, wrote nothing after it, and left
\* no output file.
C13_DownloadFailureCleanup ==
    (dl.pc = "done" /\ dl.result \in {SUCCESS, ERROR_DOWNLOAD_FAILED}) =>
      /\ (\E c \in 1..dl.manifest.chunk_count :
             \A s \in LocSet(dl.manifest.chunks[c]) : ~Good(store, dl.manifest.chunks[c], s))
           => dl.result = ERROR_DOWNLOAD_FAILED
      /\ dl.result = ERROR_DOWNLOAD_FAILED
           => /\ ~dl.out_exists
              /\ dl.i <= dl.manifest.chunk_count
              /\ \A w \in dl.writes : w.chunk <= dl.i
              /\ \A w \in dl.writes :
                   w.chunk = dl.i => w.written < dl.manifest.chunks[dl.i].size

\* a download wrote the first chunk and failed at the second, all of whose
\* replicas are corrupted
C13_Witness ==
    /\ dl.pc = "done" /\ dl.result = ERROR_DOWNLOAD_FAILED
    /\ dl.i = 2
    /\ \E w \in dl.writes : w.chunk = 1
    /\ \A s \in LocSet(dl.manifest.chunks[2]) : ~Good(store, dl.manifest.chunks[2], s)
    /\ ~dl.out_exists

\* C14: the upload of a zero-byte file is rejected with InvalidArgument
\* before anything is sent to a server.
C14_ZeroByteUploadRejected ==
    (upl.pc # "idle" /\ upl.exists /\ Len(upl.file) = 0) =>
       /\ upl.pc = "done" => upl.result = ERROR_INVALID_ARGUMENT
       /\ calls = {}
       /\ store = hist.store /\ remote = hist.remote

(***************************************************************************)
(* Start-up: netchunk_config_validate, netchunk_config_load_file and       *)
(* netchunk_init.  A configuration file is modelled by the configuration   *)
(* that netchunk_config_init_defaults and parse_ini_file leave in memory.  *)
(***************************************************************************)
MaxServerSections == 3

NETCHUNK_MIN_CHUNK_SIZE == 1048576
NETCHUNK_MAX_CHUNK_SIZE == 67108864
NETCHUNK_DEFAULT_CHUNK_SIZE == 4194304

ERROR_OUT_OF_MEMORY == "NETCHUNK_ERROR_OUT_OF_MEMORY"
ERROR_CONFIG_PARSE == "NETCHUNK_ERROR_CONFIG_PARSE"
ERROR_CONFIG_VALIDATION == "NETCHUNK_ERROR_CONFIG_VALIDATION"
ERROR_INSUFFICIENT_SERVERS == "NETCHUNK_ERROR_INSUFFICIENT_SERVERS"

\* context->config = NULL
NoConfig == [server_count |-> 0]

\* a [server_N] section with every required key
ValidServer ==
    [host |-> "ftp1.example.com", port |-> 21, username |-> "testuser",
     base_path |-> "/upload"]

\* the sections a file can hold: complete, or with one key missing
ServerEntries ==
    {ValidServer,
     [ValidServer EXCEPT !.host = ""],
     [ValidServer EXCEPT !.port = 0],
     [ValidServer EXCEPT !.username = ""],
     [ValidServer EXCEPT !.base_path = ""]}

\* the general settings as netchunk_config_init_defaults sets them
DefaultSettings ==
    [max_concurrent_operations |-> 4, ftp_timeout |-> 30,
     health_check_interval |-> 300]

\* the defaults, or one setting out of its range
GeneralSettings ==
    {DefaultSettings,
     [DefaultSettings EXCEPT !.max_concurrent_operations = 33],
     [DefaultSettings EXCEPT !.ftp_timeout = 4],
     [DefaultSettings EXCEPT !.health_check_interval = 3601]}

\* the configurations a file can be parsed into
ConfigFiles ==
    {[chunk_size |-> cs, replication_factor |-> r, server_count |-> Len(sv),
      servers |-> sv, general |-> g] :
        cs \in {NETCHUNK_MIN_CHUNK_SIZE - 1, NETCHUNK_DEFAULT_CHUNK_SIZE,
                NETCHUNK_MAX_CHUNK_SIZE + 1},
        r \in 0..(NETCHUNK_MAX_REPLICATION_FACTOR + 1),
        sv \in UNION {[1..n -> ServerEntries] : n \in 0..MaxServerSections},
        g \in GeneralSettings}

ServerValid(server) ==
    /\ server.host # ""
    /\ ~(server.port = 0 \/ server.port > 65535)
    /\ server.username # ""
    /\ server.base_path # ""

SettingsValid(g) ==
    /\ ~(g.max_concurrent_operations < 1 \/ g.max_concurrent_operations > 32)
    /\ ~(g.ftp_timeout < 5 \/ g.ftp_timeout > 300)
    /\ ~(g.health_check_interval < 30 \/ g.health_check_interval > 3600)

\* the validation without the comparison of the server count with the
\* replication factor
netchunk_config_validate_AnyServerCount(c) ==
    IF c.chunk_size < NETCHUNK_MIN_CHUNK_SIZE \/ c.chunk_size > NETCHUNK_MAX_CHUNK_SIZE
      THEN ERROR_CONFIG_VALIDATION
    ELSE IF \/ c.replication_factor < NETCHUNK_MIN_REPLICATION_FACTOR
            \/ c.replication_factor > NETCHUNK_MAX_REPLICATION_FACTOR
      THEN ERROR_CONFIG_VALIDATION
    ELSE IF c.server_count < 1 THEN ERROR_CONFIG_VALIDATION
    ELSE IF \E i \in 1..c.server_count : ~ServerValid(c.servers[i])
      THEN ERROR_CONFIG_VALIDATION
    ELSE IF ~SettingsValid(c.general) THEN ERROR_CONFIG_VALIDATION
    ELSE SUCCESS

netchunk_config_validate(c) ==
    IF c.chunk_size < NETCHUNK_MIN_CHUNK_SIZE \/ c.chunk_size > NETCHUNK_MAX_CHUNK_SIZE
      THEN ERROR_CONFIG_VALIDATION
    ELSE IF \/ c.replication_factor < NETCHUNK_MIN_REPLICATION_FACTOR
            \/ c.replication_factor > NETCHUNK_MAX_REPLICATION_FACTOR
      THEN ERROR_CONFIG_VALIDATION
    ELSE IF c.server_count < 1 THEN ERROR_CONFIG_VALIDATION
    ELSE IF c.server_count < c.replication_factor THEN ERROR_INSUFFICIENT_SERVERS
    ELSE IF \E i \in 1..c.server_count : ~ServerValid(c.servers[i])
      THEN ERROR_CONFIG_VALIDATION
    ELSE IF ~SettingsValid(c.general) THEN ERROR_CONFIG_VALIDATION
    ELSE SUCCESS

\* okOpen: fopen succeeds; okParse: every line of the file is well formed
netchunk_config_load_file(file, okOpen, okParse) ==
    IF ~okOpen THEN ERROR_FILE_NOT_FOUND
    ELSE IF ~okParse THEN ERROR_CONFIG_PARSE
    ELSE netchunk_config_validate(file)

\* okFtp: netchunk_ftp_init succeeds
netchunk_init(context, okOpen, okParse, okFtp) ==
    LET error == netchunk_config_load_file(context.file, okOpen, okParse)
        zeroed == [context EXCEPT !.pc = "done", !.initialized = FALSE,
                                  !.config = NoConfig, !.ftp_context = FALSE,
                                  !.opened = okOpen, !.parsed = okOpen /\ okParse]
    IN  IF error # SUCCESS THEN [zeroed EXCEPT !.result = error]
        ELSE IF ~okFtp THEN [zeroed EXCEPT !.result = ERROR_OUT_OF_MEMORY]
        ELSE [zeroed EXCEPT !.result = SUCCESS, !.config = context.file,
                            !.ftp_context = TRUE, !.initialized = TRUE]

\* the other operations are not in use
CoreIdle ==
    /\ config = [replication_factor |-> 1, max_retry_attempts |-> 0, chunk_size |-> 1]
    /\ store = [s \in Servers |-> [c \in ChunkIds |-> NoFile]]
    /\ remote = NoManifest
    /\ calls = {}
    /\ hist = [store |-> store, remote |-> remote]
    /\ rep = Idle /\ vfy = Idle /\ upl = Idle /\ dl = Idle
    /\ MoreIdle

core == <<config, store, remote, calls, hist, rep, vfy, upl, dl, more>>

Startup ==
    /\ ctx.pc = "idle"
    /\ \E okOpen, okParse, okFtp \in BOOLEAN :
         ctx' = netchunk_init(ctx, okOpen, okParse, okFtp)
    /\ UNCHANGED <<core, disk, pool, xfer>>

\* the caller's context is not initialised memory before netchunk_init
InitStartup ==
    /\ CoreIdle
    /\ \E file \in ConfigFiles, garbage \in BOOLEAN :
         ctx = [pc |-> "idle", file |-> file, opened |-> FALSE, parsed |-> FALSE,
                result |-> SUCCESS, initialized |-> garbage, config |-> NoConfig,
                ftp_context |-> garbage]
    /\ disk = Idle /\ pool = Idle /\ xfer = Idle

NextStartup ==
    \/ Startup

SpecStartup == InitStartup /\ [][NextStartup]_vars

\* netchunk_init returned after reading and parsing the file
Loaded == ctx.pc = "done" /\ ctx.opened /\ ctx.parsed

\* C15: a configuration whose replication factor exceeds the number of
\* configured servers makes netchunk_init fail with InsufficientServers and
\* leaves no initialised context.
C15_InsufficientServers ==
    (Loaded /\ ctx.file.replication_factor > ctx.file.server_count) =>
       /\ ctx.result = ERROR_INSUFFICIENT_SERVERS
       /\ ~ctx.initialized /\ ctx.config = NoConfig

\* C15, amended: the error is InsufficientServers when the chunk size and the
\* replication factor are in range and there is at least one server, and
\* ConfigValidation otherwise; in both cases no context is left initialised.
C15_InsufficientServersWhenInRange ==
    (Loaded /\ ctx.file.replication_factor > ctx.file.server_count) =>
       /\ ctx.result =
            IF /\ ctx.file.chunk_size >= NETCHUNK_MIN_CHUNK_SIZE
               /\ ctx.file.chunk_size <= NETCHUNK_MAX_CHUNK_SIZE
               /\ ctx.file.replication_factor <= NETCHUNK_MAX_REPLICATION_FACTOR
               /\ ctx.file.server_count >= 1
            THEN ERROR_INSUFFICIENT_SERVERS
            ELSE ERROR_CONFIG_VALIDATION
       /\ ~ctx.initialized /\ ctx.config = NoConfig /\ ~ctx.ftp_context

\* replication factor 3 with two complete server sections
C15_Witness ==
    /\ Loaded
    /\ ctx.file.replication_factor = 3 /\ ctx.file.server_count = 2
    /\ \A i \in 1..2 : ctx.file.servers[i] = ValidServer
    /\ ctx.result = ERROR_INSUFFICIENT_SERVERS
    /\ ~ctx.initialized

(***************************************************************************)
(* Local manifest files: netchunk_manifest_save_to_file and                *)
(* write_file_atomically.  A file name refers to an inode: NoInode, the    *)
(* inode of the previous manifest, or the inode that fopen creates for     *)
(* path.tmp.  The process sees names and written; after a loss of power    *)
(* the disk holds durable_names and durable.  The previous manifest is     *)
(* complete and on the disk.                                               *)
(***************************************************************************)
ContentBlocks == 2

NoInode == 0
PrevInode == 1
TempInode == 2

\* what a reader finds at the manifest path, given the inode the name refers
\* to and the number of blocks of the new content that inode holds
ReadManifest(inode, blocks) ==
    IF inode = NoInode THEN "absent"
    ELSE IF inode = PrevInode THEN "previous"
    ELSE IF blocks = ContentBlocks THEN "new"
    ELSE "partial"

SaveDone(d, error) == [d EXCEPT !.pc = "done", !.result = error]

\* unlink(temp_path)
UnlinkTemp(d) == [d EXCEPT !.names.tmp = NoInode]

\* the checks, the backup and the conversion to JSON; okJson: the conversion
\* succeeds
SaveBegin ==
    /\ disk.pc = "idle"
    /\ \E okJson \in BOOLEAN :
         LET backed == [disk EXCEPT !.backup =
                          disk.backup \/ (disk.auto_backup /\ disk.names.path # NoInode)]
         IN  disk' = IF okJson THEN [backed EXCEPT !.pc = "fopen"]
                     ELSE SaveDone(backed, ERROR_OUT_OF_MEMORY)
    /\ UNCHANGED <<core, ctx, pool, xfer>>

\* fopen(temp_path, "w")
SaveOpen ==
    /\ disk.pc = "fopen"
    /\ \E ok \in BOOLEAN :
         disk' = IF ok THEN [disk EXCEPT !.pc = "fprintf", !.names.tmp = TempInode,
                                         !.written = 0, !.durable = 0]
                 ELSE SaveDone(disk, ERROR_FILE_ACCESS)
    /\ UNCHANGED <<core, ctx, pool, xfer>>

\* fprintf: the content goes to the stream's buffer, and the part of it that
\* no longer fits there goes to the file
SavePrint ==
    /\ disk.pc = "fprintf"
    /\ \E ok \in BOOLEAN, n \in 0..ContentBlocks :
         disk' = IF ok THEN [disk EXCEPT !.pc = "fflush", !.written = n]
                 ELSE SaveDone(UnlinkTemp([disk EXCEPT !.written = n]), ERROR_FILE_ACCESS)
    /\ UNCHANGED <<core, ctx, pool, xfer>>

\* fflush: the rest of the buffer goes to the file
SaveFlush ==
    /\ disk.pc = "fflush"
    /\ \E ok \in BOOLEAN, n \in disk.written..ContentBlocks :
         disk' = IF ok THEN [disk EXCEPT !.pc = "rename", !.written = ContentBlocks]
                 ELSE SaveDone(UnlinkTemp([disk EXCEPT !.written = n]), ERROR_FILE_ACCESS)
    /\ UNCHANGED <<core, ctx, pool, xfer>>

\* fclose and rename(temp_path, file_path)
SaveRename ==
    /\ disk.pc = "rename"
    /\ \E ok \in BOOLEAN :
         disk' = IF ok THEN [disk EXCEPT !.pc = "return", !.names.path = TempInode,
                                         !.names.tmp = NoInode]
                 ELSE SaveDone(UnlinkTemp(disk), ERROR_FILE_ACCESS)
    /\ UNCHANGED <<core, ctx, pool, xfer>>

SaveReturn ==
    /\ disk.pc = "return"
    /\ disk' = SaveDone(disk, SUCCESS)
    /\ UNCHANGED <<core, ctx, pool, xfer>>

InSave == disk.pc \in {"fopen", "fprintf", "fflush", "rename", "return"}

\* the system writes blocks of the new file to the disk when it chooses to:
\* the code never calls fsync
WriteBackData ==
    /\ InSave
    /\ disk.durable < disk.written
    /\ \E n \in (disk.durable + 1)..disk.written : disk' = [disk EXCEPT !.durable = n]
    /\ UNCHANGED <<core, ctx, pool, xfer>>

\* the system writes the directory to the disk when it chooses to
WriteBackNames ==
    /\ InSave
    /\ disk.durable_names # disk.names
    /\ disk' = [disk EXCEPT !.durable_names = disk.names]
    /\ UNCHANGED <<core, ctx, pool, xfer>>

\* the process dies: the files are as the process left them
ProcessCrash ==
    /\ InSave
    /\ disk' = [disk EXCEPT !.pc = "crashed", !.crash = "process",
                            !.seen = ReadManifest(disk.names.path, disk.written)]
    /\ UNCHANGED <<core, ctx, pool, xfer>>

\* the machine loses power: the files are as the disk holds them
SystemCrash ==
    /\ InSave
    /\ disk' = [disk EXCEPT !.pc = "crashed", !.crash = "system",
                            !.seen = ReadManifest(disk.durable_names.path, disk.durable)]
    /\ UNCHANGED <<core, ctx, pool, xfer>>

InitSave ==
    /\ CoreIdle
    /\ \E prev \in {NoInode, PrevInode}, auto_backup \in BOOLEAN :
         disk = [pc |-> "idle", result |-> SUCCESS, auto_backup |-> auto_backup,
                 backup |-> FALSE, prev |-> prev,
                 names |-> [path |-> prev, tmp |-> NoInode],
                 durable_names |-> [path |-> prev, tmp |-> NoInode],
                 written |-> 0, durable |-> 0, crash |-> "none", seen |-> "none"]
    /\ ctx = Idle /\ pool = Idle /\ xfer = Idle

NextSave ==
    \/ SaveBegin
    \/ SaveOpen
    \/ SavePrint
    \/ SaveFlush
    \/ SaveRename
    \/ SaveReturn
    \/ WriteBackData
    \/ WriteBackNames
    \/ ProcessCrash
    \/ SystemCrash

SpecSave == InitSave /\ [][NextSave]_vars

\* C16: after a crash at any point of a local manifest save, the manifest
\* path holds the complete previous manifest or the complete new one, or
\* nothing if there was no previous manifest; never a partial file.
C16_SaveCrashAtomic ==
    disk.pc = "crashed" =>
       /\ disk.seen \in {"previous", "new", "absent"}
       /\ disk.seen = "previous" => disk.prev = PrevInode
       /\ disk.seen = "absent" => disk.prev = NoInode

(***************************************************************************)
(* The connection pool: netchunk_ftp_pool_init, netchunk_ftp_pool_acquire  *)
(* and netchunk_ftp_pool_release, called by threads.  The body of acquire  *)
(* and of release runs under pool_mutex, so each is one step; a thread in  *)
(* pthread_cond_wait has given the mutex up and is "waiting" until a       *)
(* signal makes it "woken", and then it tests conn->in_use again.          *)
(***************************************************************************)
NumThreads == 4

Threads == 1..NumThreads

ThreadIdle == [pc |-> "idle", server |-> NULL]

\* one connection per configured server, none in use, no CURL handle yet
netchunk_ftp_pool_init(max_concurrent_operations) ==
    [max_concurrent |-> max_concurrent_operations,
     in_use |-> [s \in Servers |-> FALSE],
     curl_handle |-> [s \in Servers |-> FALSE],
     thr |-> [t \in Threads |-> ThreadIdle]]

\* acquire never waits
SlotBusy_Never(p, s) == FALSE

\* while (conn->in_use)
SlotBusy(p, s) == p.in_use[s]

\* acquire, after the loop; okCurl: curl_easy_init and setup_curl_options
\* succeed
TakeSlot(p, t, s, okCurl) ==
    IF ~p.curl_handle[s] /\ ~okCurl THEN [p EXCEPT !.thr[t] = ThreadIdle]
    ELSE [p EXCEPT !.in_use[s] = TRUE, !.curl_handle[s] = TRUE,
                   !.thr[t] = [pc |-> "holding", server |-> s]]

netchunk_ftp_pool_acquire(p, t, s, okCurl) ==
    IF SlotBusy(p, s) THEN [p EXCEPT !.thr[t] = [pc |-> "waiting", server |-> s]]
    ELSE TakeSlot(p, t, s, okCurl)

\* the threads blocked in pthread_cond_wait on connection_available
Waiters(p) == {w \in Threads : p.thr[w].pc = "waiting"}

\* pthread_cond_signal unblocks the threads of W
Signal(p, W) ==
    [p EXCEPT !.thr = [w \in Threads |->
                         IF w \in W THEN [p.thr[w] EXCEPT !.pc = "woken"] ELSE p.thr[w]]]

netchunk_ftp_pool_release(p, t, W) ==
    Signal([p EXCEPT !.in_use[p.thr[t].server] = FALSE, !.thr[t] = ThreadIdle], W)

\* a thread calls acquire for a server
PoolAcquire(t) ==
    /\ pool.thr[t].pc = "idle"
    /\ \E s \in Servers, okCurl \in BOOLEAN :
         pool' = netchunk_ftp_pool_acquire(pool, t, s, okCurl)
    /\ UNCHANGED <<core, ctx, disk, xfer>>

\* a thread returns from pthread_cond_wait and tests conn->in_use again
PoolRecheck(t) ==
    /\ pool.thr[t].pc = "woken"
    /\ \E okCurl \in BOOLEAN :
         pool' = netchunk_ftp_pool_acquire(pool, t, pool.thr[t].server, okCurl)
    /\ UNCHANGED <<core, ctx, disk, xfer>>

\* the holder releases; the signal unblocks at least one waiting thread, if
\* there is one
PoolRelease(t) ==
    /\ pool.thr[t].pc = "holding"
    /\ \E W \in SUBSET Waiters(pool) :
         /\ (W = {}) = (Waiters(pool) = {})
         /\ pool' = netchunk_ftp_pool_release(pool, t, W)
    /\ UNCHANGED <<core, ctx, disk, xfer>>

\* pthread_cond_wait may return without a signal
SpuriousWakeup(t) ==
    /\ pool.thr[t].pc = "waiting"
    /\ pool' = Signal(pool, {t})
    /\ UNCHANGED <<core, ctx, disk, xfer>>

\* max_concurrent_operations is 1 or the default (both pass the validation)
InitPool ==
    /\ CoreIdle
    /\ \E m \in {1, DefaultSettings.max_concurrent_operations} :
         pool = netchunk_ftp_pool_init(m)
    /\ ctx = Idle /\ disk = Idle /\ xfer = Idle

NextPool ==
    \/ \E t \in Threads : PoolAcquire(t)
    \/ \E t \in Threads : PoolRecheck(t)
    \/ \E t \in Threads : PoolRelease(t)
    \/ \E t \in Threads : SpuriousWakeup(t)

SpecPool == InitPool /\ [][NextPool]_vars

\* fair scheduling: a woken thread runs, and takes the slot if it is woken
\* again and again while the slot is free; every holder releases.  Nothing
\* makes pthread_cond_wait return without a signal.
GetsSlot(t) == PoolRecheck(t) /\ pool'.thr[t].pc = "holding"

SpecPoolFair ==
    /\ SpecPool
    /\ \A t \in Threads :
         /\ WF_vars(PoolRecheck(t))
         /\ SF_vars(GetsSlot(t))
         /\ WF_vars(PoolRelease(t))

Holding(t, s) == pool.thr[t].pc = "holding" /\ pool.thr[t].server = s

Blocked(t, s) == pool.thr[t].pc \in {"waiting", "woken"} /\ pool.thr[t].server = s

\* C17: for each server at most one thread holds the connection slot between
\* a successful acquire and the matching release.
C17_OneHolderPerServer ==
    \A s \in Servers :
       /\ \A t, u \in Threads : (Holding(t, s) /\ Holding(u, s)) => t = u
       /\ pool.in_use[s] = (\E t \in Threads : Holding(t, s))

\* a thread holds a slot while a second thread, woken by a signal, is about
\* to test it and a third thread waits for it
C17_Witness ==
    \E s \in Servers, t, u, v \in Threads :
       /\ Holding(t, s)
       /\ pool.thr[u].pc = "woken" /\ pool.thr[u].server = s
       /\ pool.thr[v].pc = "waiting" /\ pool.thr[v].server = s

\* no other thread holds the slot of s, waits for it or was woken for it
Uncontended(t, s) == \A u \in Threads \ {t} : pool.thr[u].server # s

\* C18: a thread blocked in acquire for a server eventually obtains that
\* server's slot, for any number of waiters and also when threads waiting
\* for other servers are blocked on the same condition.  Stated for the
\* waiter that no thread competes with: it does not stay blocked for ever
\* at a slot that stays uncontended.
C18_WaiterEventuallyHolds ==
    \A t \in Threads, s \in Servers :
       Blocked(t, s) ~> (Holding(t, s) \/ ~Uncontended(t, s))

\* C19: the number of slots held at the same time is at most
\* max_concurrent_operations.
C19_HeldWithinMaxConcurrent ==
    Cardinality({s \in Servers : pool.in_use[s]}) <= pool.max_concurrent

(***************************************************************************)
(* perform_curl_operation: the retry loop around curl_easy_perform.  One   *)
(* step is one pass of the loop body; log holds the outcomes of the        *)
(* transfers made so far.                                                  *)
(***************************************************************************)
NETCHUNK_FTP_MAX_RETRIES == 3

ERROR_NETWORK == "NETCHUNK_ERROR_NETWORK"
ERROR_TIMEOUT == "NETCHUNK_ERROR_TIMEOUT"
ERROR_CANCELLED == "NETCHUNK_ERROR_CANCELLED"

\* the errors after which the loop tries again
RetryableCodes ==
    {"CURLE_COULDNT_CONNECT", "CURLE_OPERATION_TIMEDOUT", "CURLE_RECV_ERROR",
     "CURLE_SEND_ERROR", "CURLE_FTP_CANT_GET_HOST"}

\* the outcomes of curl_easy_perform that the function tells apart
CurlCodes ==
    RetryableCodes \cup
    {"CURLE_OK", "CURLE_OUT_OF_MEMORY", "CURLE_REMOTE_FILE_NOT_FOUND",
     "CURLE_FTP_ACCESS_DENIED", "CURLE_WRITE_ERROR"}

\* the callback that libcurl calls during a transfer: 1 aborts the transfer.
\* It is installed when the caller gave a progress structure
ftp_progress_callback(x) == IF x.progress /\ x.cancelled THEN 1 ELSE 0

\* curl_easy_perform: any outcome, and CURLE_ABORTED_BY_CALLBACK when the
\* callback returned 1
curl_easy_perform(x) ==
    CurlCodes \cup (IF ftp_progress_callback(x) = 1
                    THEN {"CURLE_ABORTED_BY_CALLBACK"} ELSE {})

\* the last reply of the server: transfer complete, or file unavailable
ResponseCodes == {226, 550}

MapCurlError(res) ==
    IF res \in {"CURLE_COULDNT_CONNECT", "CURLE_FTP_CANT_GET_HOST"} THEN ERROR_NETWORK
    ELSE IF res = "CURLE_OPERATION_TIMEDOUT" THEN ERROR_TIMEOUT
    ELSE IF res = "CURLE_OUT_OF_MEMORY" THEN ERROR_OUT_OF_MEMORY
    ELSE IF res = "CURLE_REMOTE_FILE_NOT_FOUND" THEN ERROR_FILE_NOT_FOUND
    ELSE IF res = "CURLE_FTP_ACCESS_DENIED" THEN ERROR_FILE_ACCESS
    ELSE ERROR_FTP

\* one attempt more than the maximum
RetryAllowed_OneMore(retry_count) == retry_count < NETCHUNK_FTP_MAX_RETRIES + 1

\* retry_count < NETCHUNK_FTP_MAX_RETRIES
RetryAllowed(retry_count) == retry_count < NETCHUNK_FTP_MAX_RETRIES

TransferDone(x, error) == [x EXCEPT !.pc = "done", !.result = error]

\* the argument check; retry_count = 0
TransferBegin ==
    /\ xfer.pc = "idle"
    /\ xfer' = IF ~xfer.curl_handle THEN TransferDone(xfer, ERROR_INVALID_ARGUMENT)
               ELSE [xfer EXCEPT !.pc = "perform", !.retry_count = 0]
    /\ UNCHANGED <<core, ctx, disk, pool>>

\* curl_easy_perform and what the loop body does with its result
TransferAttempt ==
    /\ xfer.pc = "perform"
    /\ \E res \in curl_easy_perform(xfer), response_code \in ResponseCodes :
         LET tried == [xfer EXCEPT !.log = Append(xfer.log, res)]
             retry_count == xfer.retry_count + 1
         IN  xfer' =
               IF res = "CURLE_OK"
                 THEN TransferDone(tried, IF response_code >= 400 THEN ERROR_FTP
                                          ELSE SUCCESS)
               ELSE IF /\ RetryAllowed(retry_count)       \* if, before the switch
                       /\ res \in RetryableCodes
                       /\ RetryAllowed(retry_count)       \* while, after continue
                 THEN [tried EXCEPT !.retry_count = retry_count]
               ELSE TransferDone([tried EXCEPT !.retry_count = retry_count],
                                 MapCurlError(res))
    /\ UNCHANGED <<core, ctx, disk, pool>>

\* the caller's other thread sets progress->cancelled
TransferCancel ==
    /\ xfer.pc = "perform"
    /\ xfer.progress /\ ~xfer.cancelled
    /\ xfer' = [xfer EXCEPT !.cancelled = TRUE]
    /\ UNCHANGED <<core, ctx, disk, pool>>

InitTransfer ==
    /\ CoreIdle
    /\ \E handle \in BOOLEAN, progress \in BOOLEAN :
         xfer = [pc |-> "idle", curl_handle |-> handle, retry_count |-> 0,
                 log |-> <<>>, result |-> SUCCESS, progress |-> progress,
                 cancelled |-> FALSE]
    /\ ctx = Idle /\ disk = Idle /\ pool = Idle

NextTransfer ==
    \/ TransferBegin
    \/ TransferAttempt
    \/ TransferCancel

SpecTransfer == InitTransfer /\ [][NextTransfer]_vars

\* the calling thread keeps running: curl_easy_perform returns, under the
\* timeouts set on the handle, and the loop body goes on
SpecTransferFair == SpecTransfer /\ WF_vars(NextTransfer)

\* C20: a transport call makes at most NETCHUNK_FTP_MAX_RETRIES transfer
\* attempts, whatever their outcomes, and then returns a result.
C20_BoundedRetryTerminates ==
    /\ [](Len(xfer.log) <= NETCHUNK_FTP_MAX_RETRIES)
    /\ [](xfer.pc = "done" => xfer.retry_count <= NETCHUNK_FTP_MAX_RETRIES)
    /\ (xfer.pc # "done") ~> (xfer.pc = "done")

\* three attempts failed with errors that are retried, and the call returned
C20_Witness ==
    /\ xfer.pc = "done"
    /\ Len(xfer.log) = NETCHUNK_FTP_MAX_RETRIES
    /\ \A i \in 1..Len(xfer.log) : xfer.log[i] \in RetryableCodes
    /\ xfer.result \in {ERROR_NETWORK, ERROR_TIMEOUT, ERROR_FTP}

(***************************************************************************)
(* Retries of the download loop.                                           *)
(***************************************************************************)
\* the step is an attempt of the download that met no fault of the network
\* or of the local disk: the replica was absent from the server (not found),
\* failed the hash comparison (integrity mismatch), or was written
CleanAttempt == dl.pc = "attempt" /\ ~dl.faults /\ dl' # dl /\ ~dl'.faults

\* C21: an error outside the retryable class (here: replica not found, or
\* integrity mismatch) is not retried by the download loop: the next attempt
\* is not made at the same location of the same chunk.
C21_NoRetryOfPermanentError ==
    [][CleanAttempt =>
         ~(dl'.pc = "attempt" /\ dl'.i = dl.i /\ dl'.loc_idx = dl.loc_idx)]_vars

\* C22: a transfer that the progress callback cancels makes the transport
\* call return Cancelled and no other error kind.
C22_CancelReturnsCancelled ==
    (/\ xfer.pc = "done" /\ xfer.log # <<>>
     /\ xfer.log[Len(xfer.log)] = "CURLE_ABORTED_BY_CALLBACK")
       => xfer.result = ERROR_CANCELLED

\* C23: once a chunk upload returned Cancelled the upload issues no further
\* upload and no manifest write: it has returned, with Cancelled.
C23_CancelStopsUpload ==
    (upl.pc # "idle" /\ upl.exists /\ upl.cancelled) =>
       (upl.pc = "done" /\ upl.result = ERROR_CANCELLED)

(***************************************************************************)
(* netchunk_delete.  The ids of the configured servers are kept in         *)
(* del.server_id; the id of a location is the id of the servers[] entry    *)
(* whose index models it.                                                  *)
(***************************************************************************)
\* the manifest is removed from the servers
netchunk_ftp_delete_manifest(rem, ok) ==
    IF ok /\ rem # NoManifest
    THEN [error |-> SUCCESS, remote |-> NoManifest]
    ELSE [error |-> ERROR_FTP, remote |-> rem]

\* the first servers[] entry whose id equals the id of the location
ServerOfLocation(server_id, loc) ==
    CHOOSE s \in Servers :
       /\ server_id[s] = server_id[loc]
       /\ \A s2 \in Servers : server_id[s2] = server_id[loc] => s <= s2

\* the position of the loops over the chunks and their locations after the
\* loop headers have been evaluated
RECURSIVE DeleteAdvance(_)
DeleteAdvance(d) ==
    IF d.i > d.manifest.chunk_count THEN [d EXCEPT !.pc = "manifest"]
    ELSE IF d.loc_idx > Len(d.manifest.chunks[d.i].locations)
    THEN DeleteAdvance([d EXCEPT !.i = @ + 1, !.loc_idx = 1])
    ELSE d

\* netchunk_delete, up to the loop over the chunks
DeleteBegin ==
    /\ del.pc = "idle"
    /\ \E okM \in BOOLEAN :
         LET m == netchunk_ftp_download_manifest(remote, okM)
         IN  del' = IF m.error # SUCCESS
                    THEN [del EXCEPT !.pc = "done", !.result = m.error]
                    ELSE DeleteAdvance([del EXCEPT !.pc = "chunk", !.manifest = m.manifest,
                                                   !.i = 1, !.loc_idx = 1])
    /\ UNCHANGED <<config, store, remote, calls, hist, rep, vfy, upl, dl,
                   ctx, disk, pool, xfer, bal, probe, cn, mgr>>

\* the body of the inner loop: the replica of one location is deleted, and
\* the result of the call is not looked at
DeleteReplica ==
    /\ del.pc = "chunk"
    /\ \E ok \in BOOLEAN :
         LET chunk == del.manifest.chunks[del.i]
             server == ServerOfLocation(del.server_id, chunk.locations[del.loc_idx])
             r == netchunk_ftp_delete_chunk(store, server, chunk.id, ok)
         IN  /\ store' = r.store
             /\ calls' = calls \cup {<<"delete", server, chunk.id>>}
             /\ del' = DeleteAdvance([del EXCEPT !.loc_idx = @ + 1,
                                                 !.failed = @ \/ r.error # SUCCESS])
    /\ UNCHANGED <<config, remote, hist, rep, vfy, upl, dl, ctx, disk, pool, xfer, bal, probe, cn, mgr>>

\* the manifest is deleted and its result returned
DeleteManifest ==
    /\ del.pc = "manifest"
    /\ \E ok \in BOOLEAN :
         LET m == netchunk_ftp_delete_manifest(remote, ok)
         IN  /\ remote' = m.remote
             /\ calls' = calls \cup {<<"delete_manifest", NULL, NULL>>}
             /\ del' = [del EXCEPT !.pc = "done", !.result = m.error]
    /\ UNCHANGED <<config, store, hist, rep, vfy, upl, dl, ctx, disk, pool, xfer, bal, probe, cn, mgr>>

\* a download of the same name after the delete has returned
DownloadAfterDelete ==
    /\ del.pc = "done"
    /\ dl.pc = "idle"
    /\ DownloadBegin

\* a stored file, and the ids of the servers
InitDelete ==
    /\ InitStored
    /\ config.replication_factor <= MaxStoredReplicas
    /\ config.max_retry_attempts = 0
    /\ rep = Idle /\ vfy = Idle /\ upl = Idle /\ dl = Idle
    /\ ctx = Idle /\ disk = Idle /\ pool = Idle /\ xfer = Idle
    /\ bal = Idle /\ probe = Idle /\ cn = Idle /\ mgr = Idle
    /\ \E ids \in ServerIds :
         del = [pc |-> "idle", server_id |-> ids, result |-> SUCCESS,
                manifest |-> NoManifest, i |-> 1, loc_idx |-> 1, failed |-> FALSE]

NextDelete ==
    \/ DeleteBegin
    \/ DeleteReplica
    \/ DeleteManifest
    \/ DownloadAfterDelete

SpecDelete == InitDelete /\ [][NextDelete]_vars

\* the delete of the replica on server s of chunk c was attempted
DeleteAttempted(s, c) == <<"delete", s, c>> \in calls

\* C24: delete attempts the deletion of every recorded replica of every
\* chunk, whether or not a deletion failed, before it deletes the manifest;
\* it always goes on to the manifest; after a successful delete a download
\* of the same name fails.
C24_DeleteOrder ==
    /\ <<"delete_manifest", NULL, NULL>> \in calls =>
          \A c \in 1..del.manifest.chunk_count :
             \A s \in LocSet(del.manifest.chunks[c]) : DeleteAttempted(s, c)
    /\ (del.pc = "done" /\ del.manifest # NoManifest) =>
          <<"delete_manifest", NULL, NULL>> \in calls
    /\ (del.pc = "done" /\ del.result = SUCCESS) =>
          /\ remote = NoManifest
          /\ dl.pc = "done" => dl.result # SUCCESS

(***************************************************************************)
(* The verify command on healthy servers (scenario S3).                    *)
(***************************************************************************)
\* one iteration of netchunk_verify's loop with every transfer succeeding
VerifyChunkHealthy ==
    /\ vfy.pc = "chunk"
    /\ VerifyChunkOn(Servers, Servers)

InitVerify ==
    /\ InitStored
    /\ config.max_retry_attempts = 0
    /\ rep = Idle /\ vfy = Idle /\ upl = Idle /\ dl = Idle
    /\ LocalIdle

NextVerify ==
    \/ VerifyBegin
    \/ VerifyChunkHealthy

SpecVerify == InitVerify /\ [][NextVerify]_vars

\* the replicas whose stored bytes do not have the recorded hash
CorruptedReplicas(st, manifest) ==
    {<<s, c>> \in Servers \X (1..manifest.chunk_count) :
        s \in LocSet(manifest.chunks[c]) /\ ~Good(st, manifest.chunks[c], s)}

\* the file was stored with a replica of every chunk on each of the
\* replication_factor = NumServers servers, and one replica was corrupted
S3Stored ==
    /\ config.replication_factor = NumServers
    /\ \A c \in 1..hist.remote.chunk_count : LocSet(hist.remote.chunks[c]) = Servers
    /\ Cardinality(CorruptedReplicas(hist.store, hist.remote)) = 1

\* verify --repair has returned success
VerifyRepairDone == vfy.pc = "done" /\ vfy.result = SUCCESS /\ vfy.repair

\* C25: in scenario S3, verify --repair on healthy servers reports every
\* chunk verified, deletes the corrupted replica from its server, uploads a
\* new replica to a different server and ends with at least
\* replication_factor healthy replicas of that chunk recorded.
C25_VerifyRepairScenario ==
    (S3Stored /\ VerifyRepairDone) =>
       /\ vfy.chunks_verified = hist.remote.chunk_count
       /\ \A r \in CorruptedReplicas(hist.store, hist.remote) :
            /\ <<"delete", r[1], r[2]>> \in calls
            /\ \E t \in Servers \ {r[1]} : <<"upload", t, r[2]>> \in calls
            /\ Cardinality(HealthyReplicas(store, remote, r[2])) >= config.replication_factor

\* a repair pass has returned success
PassDone == rep.pc = "done" /\ rep.result = SUCCESS

C27_ForceReuploadsHealthy ==
    (PassDone /\ rep.mode = REPAIR_FORCE)
    => \A c \in DOMAIN rep.health :
          rep.health[c] = CHUNK_HEALTHY =>
             \E s \in LocSet(rep.manifest.chunks[c]) : <<"upload", s, c>> \in calls

(***************************************************************************)
(* The repair engine on a manifest held by its caller, with the ids of the *)
(* configured servers: netchunk_repair_chunk and                           *)
(* netchunk_repair_rebalance_chunks.  A location is modelled by the index  *)
(* of the server the replica was sent to; its server_id is the id of that  *)
(* server, and the code compares ids only.  The chunks of the caller's     *)
(* manifest hold their data.                                               *)
(***************************************************************************)
\* the id recorded in a location
IdOf(server_id, loc) == server_id[loc]

\* the first server, in configuration order, that no location of the chunk
\* was counted for and that answers the connection test
select_server_for_replica_by_id(server_id, locs, okTest) ==
    LET server_usage == [s \in Servers |->
            Cardinality({i \in 1..Len(locs) : ServerOfLocation(server_id, locs[i]) = s})]
        candidates == {s \in Servers :
                          /\ server_usage[s] = 0
                          /\ netchunk_ftp_test_connection(s, okTest) = SUCCESS}
    IN  IF candidates = {} THEN NULL
        ELSE CHOOSE s \in candidates : \A t \in candidates : s <= t

\* the loop that creates replicas_needed additional replicas
RECURSIVE RefillLoopById(_, _, _, _, _, _, _, _, _)
RefillLoopById(server_id, st, chunk, data, replicas_needed, okTest, okUp, replicas_added, uploads) ==
    LET target_server == select_server_for_replica_by_id(server_id, chunk.locations, okTest)
    IN  IF replicas_needed <= 0 \/ target_server = NULL
        THEN [error |-> SUCCESS, chunk |-> chunk, store |-> st,
              replicas_added |-> replicas_added, uploads |-> uploads]
        ELSE LET u == netchunk_ftp_upload_chunk(st, target_server, chunk.id, data,
                                                target_server \in okUp)
                 added == u.error = SUCCESS
                          /\ Len(chunk.locations) < NETCHUNK_MAX_CHUNK_LOCATIONS
             IN  RefillLoopById(server_id, u.store,
                                IF added
                                THEN [chunk EXCEPT !.locations = Append(@, target_server)]
                                ELSE chunk,
                                data, replicas_needed - 1, okTest, okUp,
                                IF added THEN replicas_added + 1 ELSE replicas_added,
                                uploads \cup {target_server})

netchunk_repair_chunk_by_id(server_id, st, chunk, target_replication, okDl, okTest, okUp) ==
    LET locs == chunk.locations
        Server(i) == ServerOfLocation(server_id, locs[i])
        good == {i \in 1..Len(locs) : ReplicaValid(st, chunk, Server(i), okDl)}
        have_valid_data == good # {}
        first == CHOOSE i \in good : \A j \in good : i <= j
        working_data == st[Server(first)][chunk.id]
    IN  IF ~have_valid_data
        THEN [error |-> ERROR_CHUNK_INTEGRITY, chunk |-> chunk, store |-> st,
              replicas_added |-> 0, uploads |-> {}]
        ELSE RefillLoopById(server_id, st, chunk, working_data,
                            target_replication - Len(locs), okTest, okUp, 0, {})

\* netchunk_repair_chunk on one chunk of the caller's manifest
RepairChunk ==
    /\ bal.pc = "idle"
    /\ \E c \in 1..bal.manifest.chunk_count :
       \E okDl \in SUBSET {ServerOfLocation(bal.server_id, l) :
                                l \in LocSet(bal.manifest.chunks[c])} :
       \E okTest \in SUBSET (Servers \ {ServerOfLocation(bal.server_id, l) :
                                           l \in LocSet(bal.manifest.chunks[c])}) :
       \E okUp \in SUBSET okTest :
          LET rc == netchunk_repair_chunk_by_id(bal.server_id, store, bal.manifest.chunks[c],
                        config.replication_factor, okDl, okTest, okUp)
          IN  /\ store' = rc.store
              /\ calls' = calls \cup {<<"upload", s, c>> : s \in rc.uploads}
              /\ bal' = [bal EXCEPT !.manifest.chunks[c] = rc.chunk]
    /\ UNCHANGED <<config, remote, hist, rep, vfy, upl, dl, ctx, disk, pool, xfer, del, probe, cn, mgr>>

\* the data held by chunk c of the caller's manifest
ChunkData(manifest, c) ==
    read_file_chunk(FileOfSize(manifest.total_size), (c - 1) * config.chunk_size,
                    config.chunk_size)

\* the number of locations counted for each server: a location is counted
\* for the first server whose id equals its server_id
ChunkCounts(server_id, manifest) ==
    [s \in Servers |->
        Cardinality({p \in (1..manifest.chunk_count) \X (1..NETCHUNK_MAX_CHUNK_LOCATIONS) :
            /\ p[2] <= Len(manifest.chunks[p[1]].locations)
            /\ ServerOfLocation(server_id, manifest.chunks[p[1]].locations[p[2]]) = s})]

RECURSIVE SumCounts(_, _)
SumCounts(count, s) == IF s > NumServers THEN 0 ELSE count[s] + SumCounts(count, s + 1)

\* the target count of server s (s - 1 is its index in servers[])
TargetCount(avg_chunks_per_server, remainder, s) ==
    avg_chunks_per_server + (IF s - 1 < remainder THEN 1 ELSE 0)

\* a rebalance that deletes the source replica after every move
DeleteSourceAllowed_Always(location_count, replication_factor) ==
    TRUE

\* the source replica is deleted when this holds of the location count
\* after the new location was added
DeleteSourceAllowed(location_count, replication_factor) ==
    location_count > replication_factor

RemoveAt(seq, k) == [j \in 1..(Len(seq) - 1) |-> IF j < k THEN seq[j] ELSE seq[j + 1]]

\* the loop over the chunks that looks for a chunk to move from from_server
\* to to_server, from chunk i on
RECURSIVE MoveLoop(_, _, _, _, _, _, _, _, _)
MoveLoop(server_id, st, manifest, from_server, to_server, i, okUp, okDel, uploads) ==
    IF i > manifest.chunk_count
    THEN [moved |-> FALSE, manifest |-> manifest, store |-> st, uploads |-> uploads,
          deletes |-> {}]
    ELSE
    LET chunk == manifest.chunks[i]
        locs == chunk.locations
        from_idx == {j \in 1..Len(locs) : IdOf(server_id, locs[j]) = server_id[from_server]}
        on_from_server == from_idx # {}
        on_to_server == \E j \in 1..Len(locs) : IdOf(server_id, locs[j]) = server_id[to_server]
        from_location_idx == CHOOSE j \in from_idx : \A k \in from_idx : k <= j
    IN  IF on_from_server /\ ~on_to_server /\ Len(locs) < NETCHUNK_MAX_CHUNK_LOCATIONS
        THEN LET u == netchunk_ftp_upload_chunk(st, to_server, chunk.id,
                                                ChunkData(manifest, i), i \in okUp)
                 added == Append(locs, to_server)
                 d == netchunk_ftp_delete_chunk(u.store, from_server, chunk.id, okDel)
             IN  IF u.error # SUCCESS
                 THEN MoveLoop(server_id, st, manifest, from_server, to_server, i + 1,
                               okUp, okDel, uploads \cup {<<to_server, chunk.id>>})
                 ELSE IF DeleteSourceAllowed(Len(added), config.replication_factor)
                 THEN [moved |-> TRUE,
                       manifest |-> [manifest EXCEPT !.chunks[i].locations =
                                        RemoveAt(added, from_location_idx)],
                       store |-> d.store,
                       uploads |-> uploads \cup {<<to_server, chunk.id>>},
                       deletes |-> {<<from_server, chunk.id>>}]
                 ELSE [moved |-> TRUE,
                       manifest |-> [manifest EXCEPT !.chunks[i].locations = added],
                       store |-> u.store,
                       uploads |-> uploads \cup {<<to_server, chunk.id>>},
                       deletes |-> {}]
        ELSE MoveLoop(server_id, st, manifest, from_server, to_server, i + 1,
                      okUp, okDel, uploads)

\* the position of the loop over from_server after its header and the
\* condition of the while loop have been evaluated
RECURSIVE RebalanceAdvance(_)
RebalanceAdvance(b) ==
    IF b.from_server > NumServers THEN [b EXCEPT !.pc = "done"]
    ELSE IF b.server_chunk_count[b.from_server]
               > TargetCount(b.avg_chunks_per_server, b.remainder, b.from_server)
    THEN b
    ELSE RebalanceAdvance([b EXCEPT !.from_server = @ + 1])

\* a while loop that is entered again after an iteration that moved nothing
LeaveWhile_Repeat(b) ==
    b

\* the break out of the while loop: the loop over from_server goes on
LeaveWhile(b) ==
    RebalanceAdvance([b EXCEPT !.from_server = @ + 1])

\* netchunk_repair_rebalance_chunks, up to the loop over from_server
RebalanceBegin ==
    /\ bal.pc = "idle"
    /\ LET count == ChunkCounts(bal.server_id, bal.manifest)
           total_chunks == SumCounts(count, 1)
       IN  bal' = IF total_chunks = 0
                  THEN [bal EXCEPT !.pc = "done"]
                  ELSE RebalanceAdvance(
                         [bal EXCEPT !.pc = "move",
                                     !.server_chunk_count = count,
                                     !.avg_chunks_per_server = total_chunks \div NumServers,
                                     !.remainder = total_chunks % NumServers,
                                     !.from_server = 1])
    /\ UNCHANGED <<config, store, remote, calls, hist, rep, vfy, upl, dl,
                   ctx, disk, pool, xfer, del, probe, cn, mgr>>

\* one iteration of the while loop: an underloaded server is looked for and
\* a chunk is moved to it
RebalanceMove ==
    /\ bal.pc = "move"
    /\ LET under == {s \in Servers :
                        bal.server_chunk_count[s]
                           < TargetCount(bal.avg_chunks_per_server, bal.remainder, s)}
           to_server == CHOOSE s \in under : \A t \in under : s <= t
           break == LeaveWhile(bal)
       IN  IF under = {}
           THEN bal' = break /\ UNCHANGED <<store, calls>>
           ELSE \E okUp \in SUBSET (1..bal.manifest.chunk_count), okDel \in BOOLEAN :
                  LET mv == MoveLoop(bal.server_id, store, bal.manifest, bal.from_server,
                                     to_server, 1, okUp, okDel, {})
                  IN  /\ store' = mv.store
                      /\ calls' = calls \cup {<<"upload", u[1], u[2]>> : u \in mv.uploads}
                                        \cup {<<"delete", d[1], d[2]>> : d \in mv.deletes}
                      /\ bal' = IF mv.moved
                                THEN RebalanceAdvance(
                                       [bal EXCEPT
                                          !.manifest = mv.manifest,
                                          !.server_chunk_count[bal.from_server] = @ - 1,
                                          !.server_chunk_count[to_server] = @ + 1,
                                          !.moves_performed = @ + 1])
                                ELSE break
    /\ UNCHANGED <<config, remote, hist, rep, vfy, upl, dl, ctx, disk, pool, xfer,
                   del, probe, cn, mgr>>

\* a stored file whose replicas are byte exact, its manifest in the hands of
\* the caller, and the ids of the servers
InitRebalance ==
    /\ config \in {c \in Configs : /\ c.replication_factor <= MaxStoredReplicas
                                   /\ c.max_retry_attempts = 0
                                   /\ c.chunk_size = 1}
    /\ \E T \in 1..MaxFileSize :
         \E placement \in [1..T -> LocLists(config.replication_factor)] :
            /\ remote = StoredManifest(FileOfSize(T), 1, placement)
            /\ store = StoredReplicas(FileOfSize(T), 1, remote, {})
    /\ calls = {}
    /\ hist = [store |-> store, remote |-> remote]
    /\ rep = Idle /\ vfy = Idle /\ upl = Idle /\ dl = Idle
    /\ ctx = Idle /\ disk = Idle /\ pool = Idle /\ xfer = Idle
    /\ del = Idle /\ probe = Idle /\ cn = Idle /\ mgr = Idle
    /\ \E ids \in ServerIds :
         bal = [pc |-> "idle", server_id |-> ids, manifest |-> remote,
                server_chunk_count |-> [s \in Servers |-> 0],
                avg_chunks_per_server |-> 0, remainder |-> 0, from_server |-> 1,
                moves_performed |-> 0]

NextRebalance ==
    \/ RebalanceBegin
    \/ RebalanceMove

SpecRebalance == InitRebalance /\ [][NextRebalance]_vars

\* the caller repairs chunks and rebalances
NextPlacement ==
    \/ RepairChunk
    \/ RebalanceBegin
    \/ RebalanceMove

SpecPlacement == InitRebalance /\ [][NextPlacement]_vars

\* no value occurs twice in the sequence
Injective(seq) == \A i, j \in 1..Len(seq) : seq[i] = seq[j] => i = j

\* the server_id values of a list of locations
IdsOf(server_id, locs) == [j \in 1..Len(locs) |-> IdOf(server_id, locs[j])]

\* C28: a replica added to a chunk of the manifest is placed on a server that
\* does not hold a replica of the chunk yet, and the server_id values of the
\* chunk's locations stay pairwise distinct.
C28_NewReplicaOnNewServer ==
    [][\A c \in 1..bal.manifest.chunk_count :
          LET before == bal.manifest.chunks[c].locations
              after == bal'.manifest.chunks[c].locations
          IN  /\ Injective(before) => Injective(after)
              /\ Injective(IdsOf(bal.server_id, before))
                    => Injective(IdsOf(bal.server_id, after))]_vars

\* the servers that store a replica of chunk c
StoredOn(st, c) == {s \in Servers : st[s][c] # NoFile}

\* C30: a rebalance deletes the source replica of a chunk, or drops its
\* location, only in a step in which the upload to the sink has succeeded
\* and only if the chunk is left with at least replication_factor
\* locations; no step lowers the number of locations or of stored replicas
\* of a chunk.
C30_RebalanceKeepsReplicas ==
    [][\A c \in 1..bal.manifest.chunk_count :
          LET before == bal.manifest.chunks[c].locations
              after == bal'.manifest.chunks[c].locations
              gone == (Range(before) \ Range(after)) \cup (StoredOn(store, c) \ StoredOn(store', c))
          IN  /\ Len(after) >= Len(before)
              /\ Cardinality(StoredOn(store', c)) >= Cardinality(StoredOn(store, c))
              /\ gone # {} =>
                   /\ \E t \in Range(after) \ Range(before) :
                         store'[t][c] = ChunkData(bal.manifest, c)
                   /\ Len(after) >= config.replication_factor]_vars

\* a rebalance has moved a replica and deleted it from its source
C30_Witness ==
    /\ bal.pc \in {"move", "done"} /\ bal.moves_performed > 0
    /\ \E s \in Servers, c \in 1..bal.manifest.chunk_count :
          /\ <<"delete", s, c>> \in calls
          /\ store[s][c] = NoFile
          /\ s \notin LocSet(bal.manifest.chunks[c])

(***************************************************************************)
(* netchunk_health_check (the health command) and uploads.  probe holds    *)
(* the results of the last health check; no code stores them.              *)
(***************************************************************************)
\* every configured server is tested; the servers of okTest answer
HealthCheck ==
    /\ \E okTest \in SUBSET Servers :
          LET healthy == {s \in Servers : netchunk_ftp_test_connection(s, okTest) = SUCCESS}
          IN  probe' = [pc |-> "done", healthy |-> healthy,
                        healthy_servers |-> Cardinality(healthy),
                        total_servers |-> NumServers]
    /\ UNCHANGED <<config, store, remote, calls, hist, rep, vfy, upl, dl,
                   ctx, disk, pool, xfer, del, bal, cn, mgr>>

NextHealth ==
    \/ HealthCheck
    \/ UploadBegin
    \/ UploadNextChunk
    \/ UploadAttempt

SpecHealth == InitUpload /\ [][NextHealth]_vars

\* the last health probe of server s failed
ProbeFailed(s) == probe.pc = "done" /\ s \notin probe.healthy

\* C29: no new replica is placed on a server whose last health probe
\* failed.
C29_NoReplicaOnFailedServer ==
    [][\A s \in Servers, c \in ChunkIds :
          (store'[s][c] # store[s][c] /\ store'[s][c] # NoFile) => ~ProbeFailed(s)]_vars

\* the rebalance is a sequential function: an iteration that can be taken
\* is taken
SpecRebalanceFair == SpecRebalance /\ WF_vars(NextRebalance)

NumConnThreads == 3
ConnThreads == 1..NumConnThreads

\* the servers of the configuration the pool was initialised with
NumConnServers == 2
ConnServers == 1..NumConnServers

FTP_STATUS_DISCONNECTED == "DISCONNECTED"
FTP_STATUS_CONNECTED == "CONNECTED"
FTP_STATUS_BUSY == "BUSY"
FTP_STATUS_ERROR == "ERROR"

ConnThreadIdle == [pc |-> "idle", server |-> NULL, last |-> "none"]

\* netchunk_ftp_pool_init: every connection disconnected, without a curl
\* handle and not in use, no mutex held
ConnPoolInit == [pool_mutex |-> NULL, mutex |-> [s \in ConnServers |-> NULL], in_use |-> [s \in ConnServers |-> FALSE], curl_handle |-> [s \in ConnServers |-> FALSE], status |-> [s \in ConnServers |-> FTP_STATUS_DISCONNECTED], thr |-> [t \in ConnThreads |-> ConnThreadIdle]]

\* pthread_cond_signal that wakes nobody
ConnSignal_Lost(c, w) == c

\* pthread_cond_signal(&pool->connection_available): the waiter w leaves
\* pthread_cond_wait and has to take pool_mutex again
ConnSignal(c, w) == [c EXCEPT !.thr[w].pc = "woken"]

ConnWaiters(c) == {t \in ConnThreads : c.thr[t].pc = "waiting"}

\* if (!conn->curl_handle) is false: the session the connection has is kept
SessionOpen(c, s) == c.curl_handle[s]

\* the guard of every operation: no handle, or the connection in error
OperationRejected(c, s) == ~c.curl_handle[s] \/ c.status[s] = FTP_STATUS_ERROR

\* netchunk_ftp_pool_acquire for server s up to the connection's mutex:
\* pool_mutex is taken and while (conn->in_use) is evaluated; the thread waits
\* on the condition variable, which gives pool_mutex back, or goes on to
\* pthread_mutex_lock(&conn->mutex) with pool_mutex held
ConnAcquireCheck(t, s) ==
    /\ cn.pool_mutex = NULL
    /\ IF cn.in_use[s]
       THEN cn' = [cn EXCEPT !.thr[t] = [pc |-> "waiting", server |-> s, last |-> "none"]]
       ELSE cn' = [cn EXCEPT !.pool_mutex = t, !.thr[t] = [pc |-> "lock_conn", server |-> s, last |-> "none"]]
    /\ UNCHANGED <<config, store, remote, calls, hist, rep, vfy, upl, dl, ctx, disk, pool, xfer, del, bal, probe, mgr>>

\* a thread calls netchunk_ftp_pool_acquire
ConnAcquire(t) ==
    /\ cn.thr[t].pc = "idle"
    /\ \E s \in ConnServers : ConnAcquireCheck(t, s)

\* pthread_cond_wait returns when pool_mutex can be taken again, and the
\* while loop evaluates its condition once more
ConnRecheck(t) ==
    /\ cn.thr[t].pc = "woken"
    /\ ConnAcquireCheck(t, cn.thr[t].server)

\* pthread_mutex_lock(&conn->mutex) with pool_mutex held, then the rest of
\* netchunk_ftp_pool_acquire: in_use is set, a curl handle is created if the
\* connection has none (curl_easy_init or setup_curl_handle may fail), and
\* both mutexes are given back
ConnAcquireTake(t) ==
    /\ cn.thr[t].pc = "lock_conn"
    /\ cn.mutex[cn.thr[t].server] = NULL
    /\ LET s == cn.thr[t].server
       IN  IF SessionOpen(cn, s)
           THEN cn' = [cn EXCEPT !.pool_mutex = NULL, !.in_use[s] = TRUE, !.thr[t].pc = "holding"]
           ELSE \E okCurl \in BOOLEAN :
                  IF okCurl
                  THEN cn' = [cn EXCEPT !.pool_mutex = NULL, !.in_use[s] = TRUE, !.curl_handle[s] = TRUE, !.status[s] = FTP_STATUS_CONNECTED, !.thr[t].pc = "holding"]
                  ELSE cn' = [cn EXCEPT !.pool_mutex = NULL, !.in_use[s] = FALSE, !.curl_handle[s] = FALSE, !.thr[t] = ConnThreadIdle]
    /\ UNCHANGED <<config, store, remote, calls, hist, rep, vfy, upl, dl, ctx, disk, pool, xfer, del, bal, probe, mgr>>

\* the holder of a connection calls an operation (netchunk_ftp_upload and
\* its like): the connection's mutex is taken and the guard is evaluated;
\* the operation is rejected with NETCHUNK_ERROR_FTP before anything is sent,
\* or the connection becomes busy and the transfer runs with the mutex held
ConnOperationBegin(t) ==
    /\ cn.thr[t].pc = "holding"
    /\ cn.mutex[cn.thr[t].server] = NULL
    /\ LET s == cn.thr[t].server
       IN  IF OperationRejected(cn, s)
           THEN cn' = [cn EXCEPT !.thr[t].pc = "holding", !.thr[t].last = "rejected"]
           ELSE cn' = [cn EXCEPT !.mutex[s] = t, !.status[s] = FTP_STATUS_BUSY, !.thr[t].pc = "transfer"]
    /\ UNCHANGED <<config, store, remote, calls, hist, rep, vfy, upl, dl, ctx, disk, pool, xfer, del, bal, probe, mgr>>

\* perform_curl_operation returns: the status becomes CONNECTED or ERROR and
\* the connection's mutex is given back
ConnOperationEnd(t) ==
    /\ cn.thr[t].pc = "transfer"
    /\ LET s == cn.thr[t].server
       IN  \E ok \in BOOLEAN :
             cn' = [cn EXCEPT !.mutex[s] = NULL, !.status[s] = IF ok THEN FTP_STATUS_CONNECTED ELSE FTP_STATUS_ERROR, !.thr[t].pc = "holding", !.thr[t].last = "sent"]
    /\ UNCHANGED <<config, store, remote, calls, hist, rep, vfy, upl, dl, ctx, disk, pool, xfer, del, bal, probe, mgr>>

\* the holder calls netchunk_ftp_pool_release: pool_mutex is taken and the
\* thread arrives at pthread_mutex_lock(&connection->mutex)
ConnReleaseLock(t) ==
    /\ cn.thr[t].pc = "holding"
    /\ cn.pool_mutex = NULL
    /\ cn' = [cn EXCEPT !.pool_mutex = t, !.thr[t].pc = "rel_conn"]
    /\ UNCHANGED <<config, store, remote, calls, hist, rep, vfy, upl, dl, ctx, disk, pool, xfer, del, bal, probe, mgr>>

\* the connection's mutex is taken, in_use is cleared, the mutex is given
\* back, the condition variable is signalled and pool_mutex is given back
ConnReleaseDone(t) ==
    /\ cn.thr[t].pc = "rel_conn"
    /\ cn.mutex[cn.thr[t].server] = NULL
    /\ LET s == cn.thr[t].server
           c == [cn EXCEPT !.pool_mutex = NULL, !.in_use[s] = FALSE, !.thr[t] = ConnThreadIdle]
       IN  IF ConnWaiters(cn) = {}
           THEN cn' = c
           ELSE \E w \in ConnWaiters(cn) : cn' = ConnSignal(c, w)
    /\ UNCHANGED <<config, store, remote, calls, hist, rep, vfy, upl, dl, ctx, disk, pool, xfer, del, bal, probe, mgr>>

\* pthread_cond_wait may return without a signal
ConnSpuriousWakeup(t) ==
    /\ cn.thr[t].pc = "waiting"
    /\ cn' = [cn EXCEPT !.thr[t].pc = "woken"]
    /\ UNCHANGED <<config, store, remote, calls, hist, rep, vfy, upl, dl, ctx, disk, pool, xfer, del, bal, probe, mgr>>

InitConn ==
    /\ config = [replication_factor |-> 1, max_retry_attempts |-> 0, chunk_size |-> 1]
    /\ store = [s \in ConnServers |-> [c \in ChunkIds |-> NoFile]]
    /\ remote = NoManifest
    /\ calls = {}
    /\ hist = [store |-> store, remote |-> remote]
    /\ rep = Idle /\ vfy = Idle /\ upl = Idle /\ dl = Idle
    /\ ctx = Idle /\ disk = Idle /\ pool = Idle /\ xfer = Idle
    /\ del = Idle /\ bal = Idle /\ probe = Idle
    /\ cn = ConnPoolInit /\ mgr = Idle

NextConn ==
    \E t \in ConnThreads :
        \/ ConnAcquire(t)
        \/ ConnRecheck(t)
        \/ ConnAcquireTake(t)
        \/ ConnOperationBegin(t)
        \/ ConnOperationEnd(t)
        \/ ConnReleaseLock(t)
        \/ ConnReleaseDone(t)
        \/ ConnSpuriousWakeup(t)

SpecConn == InitConn /\ [][NextConn]_vars

\* C32: the first operation a thread calls on a connection it has just
\* acquired is attempted on the network and never rejected by the guard,
\* also when an earlier operation on that connection ended with an error.
C32_OperationAfterErrorAttempted == [][\A t \in ConnThreads : ~(cn.thr[t].last = "none" /\ cn'.thr[t].last = "rejected")]_vars

\* the mutex thread t is blocked on, or the condition variable
WantsPool(t) == cn.thr[t].pc = "woken"

WantsConn(t) == cn.thr[t].pc \in {"lock_conn", "rel_conn"}

\* t waits for a mutex that u holds
WaitsFor(t, u) ==
    /\ t # u
    /\ \/ WantsPool(t) /\ cn.pool_mutex = u
       \/ WantsConn(t) /\ cn.mutex[cn.thr[t].server] = u

RECURSIVE WaitChain(_, _, _)
\* u is reached from t along at most n waits
WaitChain(t, u, n) ==
    IF n = 0 THEN FALSE
    ELSE WaitsFor(t, u) \/ \E v \in ConnThreads : WaitsFor(t, v) /\ WaitChain(v, u, n - 1)

CyclicWait == \E t \in ConnThreads : WaitChain(t, t, NumConnThreads)

\* t cannot take a step: it waits for a signal, or for a mutex another
\* thread holds
ConnBlocked(t) ==
    \/ cn.thr[t].pc = "waiting"
    \/ WantsPool(t) /\ cn.pool_mutex # NULL
    \/ WantsConn(t) /\ cn.mutex[cn.thr[t].server] # NULL

InPool(t) == cn.thr[t].pc # "idle"

\* every thread that is in a call of the pool is blocked
AllBlocked == (\E t \in ConnThreads : InPool(t)) /\ \A t \in ConnThreads : InPool(t) => ConnBlocked(t)

\* C40: under every interleaving of acquire, operation and release by
\* several threads, pool_mutex and the connections' mutexes are never held
\* in a cyclic wait, and the threads that are in a call of the pool are never
\* all blocked (so never while a requested connection is free).
C40_PoolDeadlockFree == ~CyclicWait /\ ~AllBlocked

\* a thread that waited for a connection in use was signalled by the release
\* and is about to take it while a third thread transfers on another one
C40_Witness ==
    \E t, u, v \in ConnThreads :
        /\ cn.thr[t].pc = "woken" /\ ~cn.in_use[cn.thr[t].server]
        /\ cn.thr[u].pc = "waiting"
        /\ cn.thr[v].pc = "transfer"

\* ---------------------------------------------------------------------
\* Manifest documents (manifest.c): netchunk_file_manifest_from_json,
\* netchunk_chunk_from_json, netchunk_manifest_load_from_file and
\* netchunk_manifest_validate.  A JSON document is a function from the keys
\* it has to their values: <<f>> is the field f of the manifest object,
\* <<c, f>> the field f of the element c of "chunks", <<c, l, f>> the field f
\* of the element l of its "locations".  An array has its number of elements
\* as value, a string that is not empty the value 1.
\* ---------------------------------------------------------------------
ERROR_MANIFEST_CORRUPT == "NETCHUNK_ERROR_MANIFEST_CORRUPT"

\* the documents differ from a manifest the program wrote in at most
\* MaxDefects fields, each missing or holding another value
MaxDefects == 2

\* the document netchunk_file_manifest_to_json writes for a file of
\* total_size bytes in chunks of NETCHUNK_MIN_CHUNK_SIZE, each chunk on the
\* servers "1" .. "R"
WrittenDocument(total_size, R) ==
    LET S == NETCHUNK_MIN_CHUNK_SIZE
        n == netchunk_calculate_chunk_count(total_size, S)
        keys == {<<"version">>, <<"manifest_id">>, <<"original_filename">>, <<"total_size">>, <<"chunk_size">>, <<"chunk_count">>, <<"replication_factor">>, <<"min_replicas_required">>, <<"chunks">>}
                \cup ((1..n) \X {"id", "sequence_number", "size", "locations"})
                \cup ((1..n) \X (1..R) \X {"server_id"})
        value(k) ==
            IF Len(k) = 1
            THEN CASE k[1] = "total_size" -> total_size
                   [] k[1] = "chunk_size" -> S
                   [] k[1] \in {"chunk_count", "chunks"} -> n
                   [] k[1] = "replication_factor" -> R
                   [] OTHER -> 1
            ELSE IF Len(k) = 2
            THEN CASE k[2] = "sequence_number" -> k[1] - 1
                   [] k[2] = "size" -> IF k[1] < n THEN S ELSE total_size - (n - 1) * S
                   [] k[2] = "locations" -> R
                   [] OTHER -> 1
            ELSE k[2]
    IN  [k \in keys |-> value(k)]

RECURSIVE SubsetsUpTo(_, _)
\* the subsets of S of at most n elements
SubsetsUpTo(S, n) ==
    IF n = 0 THEN {{}}
    ELSE LET smaller == SubsetsUpTo(S, n - 1)
         IN  smaller \cup {A \cup {x} : A \in smaller, x \in S}

\* a field that is missing from the document
Absent == 0 - 1

\* what a field may hold in place of the value written: another size, count,
\* sequence number or threshold, the server of the other location
OtherValues(doc, k) ==
    LET f == k[Len(k)]
    IN  CASE f \in {"total_size", "chunk_count", "sequence_number", "size", "min_replicas_required"} -> {doc[k] + 1}
          [] f = "chunk_size" -> {NETCHUNK_MIN_CHUNK_SIZE - 1, NETCHUNK_MAX_CHUNK_SIZE + 1}
          [] f = "server_id" -> {s \in 1..doc[<<"replication_factor">>] : s # doc[k]}
          [] OTHER -> {}

Defective(doc) ==
    LET values == {Absent} \cup UNION {OtherValues(doc, k) : k \in DOMAIN doc}
    IN  UNION {{[k \in {x \in DOMAIN doc : x \notin E \/ f[x] # Absent} |-> IF k \in E THEN f[k] ELSE doc[k]] :
                   f \in {g \in [E -> values] : \A e \in E : g[e] \in {Absent} \cup OtherValues(doc, e)}} :
               E \in SubsetsUpTo(DOMAIN doc, MaxDefects)}

Documents ==
    UNION {Defective(WrittenDocument(total_size, R)) :
              total_size \in {NETCHUNK_MIN_CHUNK_SIZE, NETCHUNK_MIN_CHUNK_SIZE + 1}, R \in 1..2}

\* cJSON_GetObjectItem on a structure that memset has zeroed: the value of
\* the key, or the zero the field keeps when the key is missing
ItemOrZero(doc, k) == IF k \in DOMAIN doc THEN doc[k] ELSE 0

HasItem(doc, k) == k \in DOMAIN doc

\* netchunk_chunk_from_json of the element c of "chunks"
netchunk_chunk_from_json(doc, c) ==
    LET array_size == ItemOrZero(doc, <<c, "locations">>)
        location_count == IF array_size < NETCHUNK_MAX_CHUNK_LOCATIONS THEN array_size ELSE NETCHUNK_MAX_CHUNK_LOCATIONS
    IN  [result |-> SUCCESS,
         chunk |-> [id |-> ItemOrZero(doc, <<c, "id">>),
                    sequence_number |-> ItemOrZero(doc, <<c, "sequence_number">>),
                    size |-> ItemOrZero(doc, <<c, "size">>),
                    locations |-> [l \in 1..location_count |-> [server_id |-> ItemOrZero(doc, <<c, l, "server_id">>)]]]]

\* netchunk_file_manifest_from_json of a document cJSON_Parse accepts
netchunk_file_manifest_from_json(doc) ==
    LET array_size == ItemOrZero(doc, <<"chunks">>)
        loaded == [c \in 1..array_size |-> netchunk_chunk_from_json(doc, c)]
        chunks_loaded == Cardinality({c \in 1..array_size : loaded[c].result = SUCCESS})
    IN  [result |-> SUCCESS,
         manifest |-> [version |-> ItemOrZero(doc, <<"version">>),
                       manifest_id |-> ItemOrZero(doc, <<"manifest_id">>),
                       original_filename |-> ItemOrZero(doc, <<"original_filename">>),
                       total_size |-> ItemOrZero(doc, <<"total_size">>),
                       chunk_size |-> ItemOrZero(doc, <<"chunk_size">>),
                       chunk_count |-> IF array_size > 0 THEN chunks_loaded ELSE ItemOrZero(doc, <<"chunk_count">>),
                       replication_factor |-> ItemOrZero(doc, <<"replication_factor">>),
                       min_replicas_required |-> ItemOrZero(doc, <<"min_replicas_required">>),
                       chunks |-> [c \in 1..array_size |-> loaded[c].chunk]]]

\* netchunk_manifest_load_from_file: the file is read and parsed, and the
\* result of the parse is the result of the load
netchunk_manifest_load_from_file(doc) == netchunk_file_manifest_from_json(doc)

\* netchunk_manifest_validate
netchunk_manifest_validate(m) ==
    IF m.version = 0 THEN ERROR_MANIFEST_CORRUPT
    ELSE IF m.original_filename = 0 \/ m.manifest_id = 0 \/ m.total_size = 0 \/ m.chunk_size = 0 \/ m.chunk_count = 0 THEN ERROR_MANIFEST_CORRUPT
    ELSE IF m.chunk_size < NETCHUNK_MIN_CHUNK_SIZE \/ m.chunk_size > NETCHUNK_MAX_CHUNK_SIZE THEN ERROR_CONFIG_VALIDATION
    ELSE IF m.chunk_count # netchunk_calculate_chunk_count(m.total_size, m.chunk_size) THEN ERROR_MANIFEST_CORRUPT
    ELSE IF Len(m.chunks) > 0 /\ \E i \in 1..m.chunk_count : m.chunks[i].id = 0 \/ m.chunks[i].sequence_number # i - 1 \/ Len(m.chunks[i].locations) > NETCHUNK_MAX_CHUNK_LOCATIONS THEN ERROR_MANIFEST_CORRUPT
    ELSE SUCCESS

\* a manifest file is loaded
ManifestLoad ==
    /\ mgr.pc = "document"
    /\ LET r == netchunk_manifest_load_from_file(mgr.document)
       IN  mgr' = [pc |-> "loaded", document |-> mgr.document, result |-> r.result, manifest |-> r.manifest]
    /\ UNCHANGED <<config, store, remote, calls, hist, rep, vfy, upl, dl, ctx, disk, pool, xfer, del, bal, probe, cn>>

\* the manifest that was loaded is handed to netchunk_manifest_validate
ManifestValidate ==
    /\ mgr.pc = "loaded" /\ mgr.result = SUCCESS
    /\ mgr' = [mgr EXCEPT !.pc = "validated", !.result = netchunk_manifest_validate(mgr.manifest)]
    /\ UNCHANGED <<config, store, remote, calls, hist, rep, vfy, upl, dl, ctx, disk, pool, xfer, del, bal, probe, cn>>

InitManifest ==
    /\ config = [replication_factor |-> 1, max_retry_attempts |-> 0, chunk_size |-> 1]
    /\ store = [s \in Servers |-> [c \in ChunkIds |-> NoFile]]
    /\ remote = NoManifest
    /\ calls = {}
    /\ hist = [store |-> store, remote |-> remote]
    /\ rep = Idle /\ vfy = Idle /\ upl = Idle /\ dl = Idle
    /\ ctx = Idle /\ disk = Idle /\ pool = Idle /\ xfer = Idle
    /\ del = Idle /\ bal = Idle /\ probe = Idle /\ cn = Idle
    /\ \E d \in Documents : mgr = [pc |-> "document", document |-> d]

NextManifest == ManifestLoad \/ ManifestValidate

SpecManifest == InitManifest /\ [][NextManifest]_vars

RECURSIVE SumSizes(_)
SumSizes(chunks) == IF chunks = <<>> THEN 0 ELSE chunks[1].size + SumSizes(Tail(chunks))

\* the manifest breaks one of the rules of the data model
ViolatesDataModel(m) ==
    \/ m.chunk_size < NETCHUNK_MIN_CHUNK_SIZE \/ m.chunk_size > NETCHUNK_MAX_CHUNK_SIZE
    \/ m.chunk_count # netchunk_calculate_chunk_count(m.total_size, m.chunk_size)
    \/ SumSizes(m.chunks) # m.total_size
    \/ \E i \in 1..Len(m.chunks) : m.chunks[i].sequence_number # i - 1
    \/ m.min_replicas_required > m.replication_factor
    \/ \E i \in 1..Len(m.chunks) : \E a, b \in 1..Len(m.chunks[i].locations) :
          a # b /\ m.chunks[i].locations[a].server_id = m.chunks[i].locations[b].server_id

\* C33: netchunk_manifest_validate rejects with NETCHUNK_ERROR_MANIFEST_CORRUPT
\* every manifest that breaks a rule of the data model (chunk count, sum of the
\* chunk sizes, sequence numbers, min_replicas_required above
\* replication_factor, chunk size out of range, two locations of a chunk on
\* one server), and a manifest read from a file is accepted only if it breaks
\* none.
C33_InvalidManifestRejected ==
    /\ mgr.pc = "validated" /\ ViolatesDataModel(mgr.manifest) => mgr.result = ERROR_MANIFEST_CORRUPT
    /\ mgr.pc = "loaded" /\ mgr.result = SUCCESS => ~ViolatesDataModel(mgr.manifest)

\* a field of the manifest object, of an element of "chunks" or of an element
\* of "locations" is missing from the document
MissingField(doc) ==
    \/ \E f \in {"version", "manifest_id", "original_filename", "total_size", "chunk_size", "chunk_count", "replication_factor", "min_replicas_required", "chunks"} : ~HasItem(doc, <<f>>)
    \/ \E c \in 1..ItemOrZero(doc, <<"chunks">>) :
          \/ \E f \in {"id", "sequence_number", "size", "locations"} : ~HasItem(doc, <<c, f>>)
          \/ \E l \in 1..ItemOrZero(doc, <<c, "locations">>) : ~HasItem(doc, <<c, l, "server_id">>)

\* C34: parsing a manifest document in which a required field of the
\* manifest, of a chunk or of a location is missing fails with
\* NETCHUNK_ERROR_MANIFEST_CORRUPT and yields no manifest with the field
\* zero-filled.
C34_MissingFieldRejected == mgr.pc = "loaded" /\ MissingField(mgr.document) => mgr.result = ERROR_MANIFEST_CORRUPT

\* ---------------------------------------------------------------------
\* The chunker alone: netchunk_chunker_next_chunk is called again and again
\* on the context netchunk_chunker_init made, also after it has reported the
\* end of the chunks.  upl holds the context and what every call returned.
\* After a read error the position in the file is not defined, and no
\* further call is made.
\* ---------------------------------------------------------------------
MaxNextCalls == 8

ChunkerNext ==
    /\ upl.pc = "chunker"
    /\ Len(upl.results) < MaxNextCalls
    /\ \E okRead \in BOOLEAN :
         LET n == netchunk_chunker_next_chunk(upl.chunker, okRead)
             returned == IF n.error = SUCCESS
                         THEN [error |-> SUCCESS, sequence_number |-> n.chunk.sequence_number, size |-> Len(n.data)]
                         ELSE [error |-> n.error, sequence_number |-> 0, size |-> 0]
         IN  upl' = [upl EXCEPT !.pc = IF n.error = ERROR_FILE_ACCESS THEN "failed" ELSE "chunker",
                                !.chunker = n.context, !.results = Append(@, returned)]
    /\ UNCHANGED <<config, store, remote, calls, hist, rep, vfy, dl, local>>

InitChunker ==
    /\ config = [replication_factor |-> 1, max_retry_attempts |-> 0, chunk_size |-> 1]
    /\ store = [s \in Servers |-> [c \in ChunkIds |-> NoFile]]
    /\ remote = NoManifest
    /\ calls = {}
    /\ hist = [store |-> store, remote |-> remote]
    /\ rep = Idle /\ vfy = Idle /\ dl = Idle
    /\ LocalIdle
    /\ \E T \in 1..MaxFileSize, S \in 1..MaxChunkSize :
         \E file \in [1..T -> 0..1] :
            upl = [pc |-> "chunker", chunker |-> netchunk_chunker_init(file, S), results |-> <<>>]

NextChunker == ChunkerNext

SpecChunker == InitChunker /\ [][NextChunker]_vars

\* the chunks among the first n results
ChunksReturned(n) == SelectSeq(SubSeq(upl.results, 1, n), LAMBDA r : r.error = SUCCESS)

\* the chunker's signal that no chunk is left
EndOfSequence(r) == r.error = ERROR_FILE_NOT_FOUND

\* C35: for a file of T > 0 bytes and chunk size S the successive calls of
\* next return exactly ceil(T/S) chunks, numbered 0, 1, ... in order, each of
\* S bytes but the last, which has between 1 and S bytes; every call after
\* that returns the end of the sequence and never another chunk.
C35_ChunkSequence ==
    LET T == upl.chunker.total_file_size
        S == upl.chunker.chunk_size
        N == (T + S - 1) \div S
        chunks == ChunksReturned(Len(upl.results))
    IN  /\ Len(chunks) <= N
        /\ \A i \in 1..Len(chunks) :
              /\ chunks[i].sequence_number = i - 1
              /\ i < N => chunks[i].size = S
              /\ i = N => chunks[i].size = T - (N - 1) * S /\ chunks[i].size \in 1..S
        /\ \A j \in 1..Len(upl.results) :
              /\ EndOfSequence(upl.results[j]) => Len(ChunksReturned(j)) = N
              /\ Len(ChunksReturned(j - 1)) = N => EndOfSequence(upl.results[j])

\* a file of two chunks was chunked to its end and next was called twice more
C35_Witness ==
    /\ upl.pc = "chunker"
    /\ Len(ChunksReturned(Len(upl.results))) = 2
    /\ Len(upl.results) >= 4
    /\ EndOfSequence(upl.results[Len(upl.results)]) /\ EndOfSequence(upl.results[Len(upl.results) - 1])

\* ---------------------------------------------------------------------
\* The files of the manifest manager (manifest.c): the manifest file of one
\* name and its backups, which are named after the second they are made in.
\* failed: a save or a delete has returned an error.
\* ---------------------------------------------------------------------
MaxClock == 7

\* netchunk_manifest_manager_init
netchunk_manifest_manager_init == [pc |-> "files", auto_backup |-> TRUE, max_backups |-> 5, now |-> 0, exists |-> FALSE, backups |-> {}, result |-> SUCCESS, failed |-> FALSE]

\* netchunk_manifest_backup: the manifest file, if there is one, is copied to
\* <path>.backup.<time>; okWrite: write_file_atomically succeeds
netchunk_manifest_backup(m, okWrite) ==
    IF m.exists /\ okWrite THEN [m EXCEPT !.backups = @ \cup {m.now}] ELSE m

\* netchunk_manifest_save_to_file
netchunk_manifest_save_to_file(m, okBackup, okWrite) ==
    LET backed == IF m.auto_backup /\ m.exists THEN netchunk_manifest_backup(m, okBackup) ELSE m
    IN  IF okWrite
        THEN [backed EXCEPT !.exists = TRUE, !.result = SUCCESS]
        ELSE [backed EXCEPT !.result = ERROR_FILE_ACCESS, !.failed = TRUE]

\* netchunk_manifest_delete_file
netchunk_manifest_delete_file(m, okBackup) ==
    LET backed == IF m.auto_backup THEN netchunk_manifest_backup(m, okBackup) ELSE m
    IN  IF m.exists
        THEN [backed EXCEPT !.exists = FALSE, !.result = SUCCESS]
        ELSE [backed EXCEPT !.result = ERROR_FILE_NOT_FOUND, !.failed = TRUE]

ManagerSave ==
    /\ mgr.pc = "files"
    /\ \E okBackup \in BOOLEAN, okWrite \in BOOLEAN : mgr' = netchunk_manifest_save_to_file(mgr, okBackup, okWrite)
    /\ UNCHANGED <<config, store, remote, calls, hist, rep, vfy, upl, dl, ctx, disk, pool, xfer, del, bal, probe, cn>>

ManagerDelete ==
    /\ mgr.pc = "files"
    /\ \E okBackup \in BOOLEAN : mgr' = netchunk_manifest_delete_file(mgr, okBackup)
    /\ UNCHANGED <<config, store, remote, calls, hist, rep, vfy, upl, dl, ctx, disk, pool, xfer, del, bal, probe, cn>>

\* time(NULL) has moved on by a second
ClockTick ==
    /\ mgr.pc = "files"
    /\ mgr.now < MaxClock
    /\ mgr' = [mgr EXCEPT !.now = @ + 1]
    /\ UNCHANGED <<config, store, remote, calls, hist, rep, vfy, upl, dl, ctx, disk, pool, xfer, del, bal, probe, cn>>

InitManager ==
    /\ config = [replication_factor |-> 1, max_retry_attempts |-> 0, chunk_size |-> 1]
    /\ store = [s \in Servers |-> [c \in ChunkIds |-> NoFile]]
    /\ remote = NoManifest
    /\ calls = {}
    /\ hist = [store |-> store, remote |-> remote]
    /\ rep = Idle /\ vfy = Idle /\ upl = Idle /\ dl = Idle
    /\ ctx = Idle /\ disk = Idle /\ pool = Idle /\ xfer = Idle
    /\ del = Idle /\ bal = Idle /\ probe = Idle /\ cn = Idle
    /\ mgr = netchunk_manifest_manager_init

NextManager == ManagerSave \/ ManagerDelete \/ ClockTick

SpecManager == InitManager /\ [][NextManager]_vars

\* C36: with backups enabled, after any sequence of successful saves and
\* deletes of a manifest no more than max_backups backup files of it exist
\* (the older ones are unlinked after each successful write).
C36_BackupsBounded == mgr.auto_backup /\ ~mgr.failed => Cardinality(mgr.backups) <= mgr.max_backups

\* C37: at the end of a repair pass in a mode other than verify-only the
\* manifest the servers hold lists, for every chunk, exactly the locations
\* the pass left in its manifest, also when the pass removed locations and
\* added none.
C37_StoredManifestMatchesPass ==
    (PassDone /\ rep.mode # REPAIR_VERIFY_ONLY)
    => /\ remote.chunk_count = rep.manifest.chunk_count
       /\ \A c \in 1..rep.manifest.chunk_count : remote.chunks[c].locations = rep.manifest.chunks[c].locations

\* C38: every replica netchunk_verify uploads with repair enabled is listed in
\* the locations of its chunk in the manifest the servers hold when the call
\* returns: no replica is left that the manifest does not reference.
C38_VerifyRecordsReplicas ==
    (vfy.pc = "done" /\ vfy.repair)
    => \A s \in Servers, c \in 1..remote.chunk_count :
          (<<"upload", s, remote.chunks[c].id>> \in calls /\ store[s][c] # NoFile) => s \in LocSet(remote.chunks[c])

\* the offset of chunk c in the file: the sizes of the chunks before it
ChunkOffset(manifest, c) == SumSizes(SubSeq(manifest.chunks, 1, c - 1))

\* C39: in a download that returns success the output file holds the payload
\* of every chunk exactly once, at the offset that is the sum of the sizes of
\* the chunks before it, and nothing else: a short write followed by another
\* attempt, or a failed location followed by a good one, leaves no extra
\* bytes.
C39_OutputExactlyOnce ==
    DownloadSucceeded =>
      /\ Len(dl.out) = dl.manifest.total_size
      /\ \A c \in 1..dl.manifest.chunk_count :
            LET chunk == dl.manifest.chunks[c]
                offset == ChunkOffset(dl.manifest, c)
            IN  netchunk_sha256_hash(SubSeq(dl.out, offset + 1, offset + chunk.size)) = chunk.hash

====
